---- MODULE Spec2Model ----
(***************************************************************************)
(* A model of the wwiseutil container engine: the SoundBank (bnk) and File *)
(* Package (pck) parsers and serializers, the wem replacement engine and   *)
(* the SoundBank loop editor.  Files are sequences of bytes (0..255); all  *)
(* multi-byte integers are little-endian.                                  *)
(***************************************************************************)
EXTENDS Integers, Sequences, FiniteSets, TLC

VARIABLES
    kind,        \* "bnk" or "pck": the concrete Container type
    file,        \* the bytes of the file the container was loaded from
    sections,    \* bnk File.sections, in the order read
    wems,        \* Container.Wems(): descriptor, reader and padding of each wem
    dataLength,  \* bnk DataSection.Header.Length
    dataStart,   \* bnk DataSection.DataStart
    hircLength,  \* bnk ObjectSection.Header.Length
    objects,     \* bnk ObjectSection objects, in the order read
    loopOf,      \* bnk ObjectSection.loopOf: wem id -> loop value
    pck,         \* pck File: Header, Indexes (Type, Unknown) and Padding
    panicked,    \* a call ended in a Go runtime panic
    last,        \* the last mutating call and its arguments, and the one before
    out,         \* the bytes the last WriteTo wrote to its Writer
    written,     \* the byte count the last WriteTo returned
    nwrites,     \* WriteTo calls since the last load or mutation
    ncalls       \* ReplaceWems and ReplaceLoopOf calls made so far

vars == <<kind, file, sections, wems, dataLength, dataStart, hircLength,
          objects, loopOf, pck, panicked, last, out, written, nwrites, ncalls>>

(***************************************************************************)
(* Program constants.                                                      *)
(***************************************************************************)
WemAlign == 16
SECTION_HEADER_BYTES == 8
BKHD_SECTION_BYTES == 8
DIDX_ENTRY_BYTES == 12

bkhdHeaderId == <<66, 75, 72, 68>>
didxHeaderId == <<68, 73, 68, 88>>
dataHeaderId == <<68, 65, 84, 65>>
hircHeaderId == <<72, 73, 82, 67>>

(***************************************************************************)
(* Bounds of the model.                                                    *)
(***************************************************************************)
MaxLen == 17        \* largest replacement length tried
MaxReqs == 2        \* most requests in one ReplaceWems call
MaxCalls == 2       \* most mutating calls in one run
MaxWrites == 2      \* most WriteTo calls between two mutations

(***************************************************************************)
(* Fixed-width integers and their little-endian encoding.                  *)
(***************************************************************************)
Min(a, b) == IF a < b THEN a ELSE b
Max(a, b) == IF a > b THEN a ELSE b

\* uint32(x).  The checker's integers are 32-bit signed, so 2^32 has no
\* numeral; every length, offset and count of the model lies in 0..2^31-1,
\* where the conversion is exact.  A negative operand, whose conversion would
\* wrap, has no value here and stops the check.
U32(x) == IF x >= 0 THEN x ELSE CHOOSE v \in {} : TRUE
U8(x) == x % 256

LE32(v) == <<v % 256, (v \div 256) % 256, (v \div 65536) % 256,
             (v \div 16777216) % 256>>

\* The uint32 at 0-based position p of the byte sequence b.
U32At(b, p) == b[p + 1] + 256 * b[p + 2] + 65536 * b[p + 3] + 16777216 * b[p + 4]

Slice(b, p, n) == SubSeq(b, p + 1, p + n)

RECURSIVE Flatten(_)
Flatten(ss) ==
    IF ss = <<>> THEN <<>>
    ELSE IF Len(ss) = 1 THEN ss[1]
    ELSE Flatten(SubSeq(ss, 1, Len(ss) \div 2))
         \o Flatten(SubSeq(ss, Len(ss) \div 2 + 1, Len(ss)))

RECURSIVE SumSeq(_)
SumSeq(s) == IF s = <<>> THEN 0 ELSE Head(s) + SumSeq(Tail(s))

(***************************************************************************)
(* Byte sources (io.ReaderAt) and the readers over them.                   *)
(***************************************************************************)
SrcFile == [kind |-> "file", seed |-> 0]
SrcZero == [kind |-> "zero", seed |-> 0]
SrcRep(s) == [kind |-> "rep", seed |-> s]

\* The byte at 0-based position p of a source; f is the loaded file.
ByteAt(src, p, f) ==
    CASE src.kind = "file" -> f[p + 1]
      [] src.kind = "zero" -> 0
      [] OTHER -> (src.seed + p) % 256

\* InfiniteReaderAt.ReadAt and a replacement source never run out of bytes;
\* the file source ends at its size.
SrcAvail(src, p, f) ==
    IF src.kind = "file" THEN Max(0, Len(f) - p) ELSE 2147483647

NewResettingReader(src, off, n) == [src |-> src, off |-> off, n |-> n, pos |-> 0]

\* io.SectionReader.Read with a buffer at least as large as the window:
\* the bytes read, the reader afterwards and whether io.EOF was returned.
SectionReadN(r, f, k) ==
    [bytes |-> [i \in 1..k |-> ByteAt(r.src, r.off + r.pos + i - 1, f)],
     rd |-> [r EXCEPT !.pos = @ + k],
     eof |-> k < r.n - r.pos]

SectionRead(r, f) ==
    IF r.pos >= r.n
    THEN [bytes |-> <<>>, rd |-> r, eof |-> TRUE]
    ELSE SectionReadN(r, f, Min(r.n - r.pos, SrcAvail(r.src, r.off + r.pos, f)))

\* A plausible bug: the reader is not rewound on io.EOF.
ReadNoReset(r, f) == SectionRead(r, f)

\* ResettingReader.Read: on io.EOF the reader seeks back to its start.
\* The seek back to the start that follows a read s that returned io.EOF.
SeekStartOnEOF(s) == IF s.eof THEN [s EXCEPT !.rd.pos = 0] ELSE s

ResettingRead(r, f) == SeekStartOnEOF(SectionRead(r, f))

\* io.Copy after a first read s1 and, if that was not the end, a second s2.
IoCopyTwo(s1, s2) == [bytes |-> s1.bytes \o s2.bytes, rd |-> s2.rd]

IoCopyRest(s1, f) ==
    IF s1.eof THEN [bytes |-> s1.bytes, rd |-> s1.rd]
    ELSE IoCopyTwo(s1, ResettingRead(s1.rd, f))

\* io.Copy(w, r): Read until io.EOF.
IoCopy(r, f) == IoCopyRest(ResettingRead(r, f), f)

ReaderSize(r) == r.n

\* Mutant of SortByWemIndex: the requests are taken in the order given.
AsListed(rs) == rs

(***************************************************************************)
(* The replacement engine, wwise.ReplaceWems.                              *)
(***************************************************************************)
\* sort.Sort(ByWemIndex{rs}) on a short slice is an insertion sort.
RECURSIVE InsertByWemIndex(_, _)
InsertByWemIndex(sorted, r) ==
    IF sorted = <<>> THEN <<r>>
    ELSE LET l == sorted[Len(sorted)]
         IN IF r.idx < l.idx
            THEN InsertByWemIndex(SubSeq(sorted, 1, Len(sorted) - 1), r) \o <<l>>
            ELSE sorted \o <<r>>

RECURSIVE SortByWemIndex(_)
SortByWemIndex(rs) ==
    IF rs = <<>> THEN <<>>
    ELSE InsertByWemIndex(SortByWemIndex(SubSeq(rs, 1, Len(rs) - 1)), rs[Len(rs)])

\* A plausible bug: the padding after a grown wem is not recomputed.
GrowPaddingNone(offset, newLength) == 0

\* The padding after a grown wem.
GrowPadding(offset, newLength) == WemAlign - ((offset + newLength) % WemAlign)

\* A plausible bug: the descriptor keeps its old length and reader window.
ReplaceReaderStale(w, r) == w

\* The new reader and descriptor length of the replaced wem.
ReplaceReader(w, r) ==
    [w EXCEPT !.reader = NewResettingReader(r.src, 0, r.len),
              !.length = U32(r.len)]

\* A plausible bug: the shift does not stop at the next replaced wem.
LastShiftedAll(ws, rs, i) == Len(ws) - 1

\* The last 0-based wem index whose offset request i (1-based, in the sorted
\* list rs) shifts.
LastShifted(ws, rs, i) ==
    IF i + 1 <= Len(rs) /\ rs[i + 1].idx > rs[i].idx /\ rs[i + 1].idx <= Len(ws) - 1
    THEN rs[i + 1].idx
    ELSE Len(ws) - 1

\* A plausible bug: a wem that does not grow keeps the padding it had.
NewPaddingKept(wem, newLength) ==
    IF newLength > wem.length
    THEN GrowPadding(wem.offset, newLength)
    ELSE ReaderSize(wem.padding)

\* The padding of wem after its replacement by newLength bytes.
NewPadding(wem, newLength) ==
    IF newLength > wem.length
    THEN GrowPadding(wem.offset, newLength)
    ELSE ReaderSize(wem.padding) + (wem.length - newLength)

\* The surplus after the replacement of wem: it grows only when the wem does.
NewSurplus(surplus, wem, newLength, padding) ==
    IF newLength > wem.length
    THEN surplus + (newLength - wem.length) + (padding - ReaderSize(wem.padding))
    ELSE surplus

\* The shift of the offsets of the wems at 0-based indices from..upto.
ShiftOffsets(ws, from, upto, surplus) ==
    IF surplus > 0
    THEN [k \in 1..Len(ws) |->
            IF k - 1 >= from /\ k - 1 <= upto
            THEN [ws[k] EXCEPT !.offset = U32(@ + U32(surplus))]
            ELSE ws[k]]
    ELSE ws

\* A plausible bug: the replaced wem takes a new identifier.
ReplaceWemRenamed(wem, r, padding) ==
    [wem EXCEPT !.id = @ + 1,
                !.reader = NewResettingReader(r.src, 0, r.len),
                !.length = U32(r.len),
                !.padding = NewResettingReader(SrcZero, 0, padding)]

\* The wem with its new reader, length and padding.
ReplaceWem(wem, r, padding) ==
    [ReplaceReader(wem, r) EXCEPT !.padding = NewResettingReader(SrcZero, 0, padding)]

ReplaceShift(ws, rs, i, surplus) ==
    [wems |-> ShiftOffsets(ws, rs[i].idx + 1, LastShifted(ws, rs, i), surplus),
     surplus |-> surplus, panic |-> FALSE]

ReplaceOne(st, rs, i, wem, padding) ==
    ReplaceShift([st.wems EXCEPT ![rs[i].idx + 1] = ReplaceWem(wem, rs[i], padding)],
                 rs, i, NewSurplus(st.surplus, wem, rs[i].len, padding))

\* One iteration of the loop over the sorted requests: an index outside the
\* wems is a runtime panic.
ReplaceStep(st, rs, i) ==
    IF rs[i].idx < 0 \/ rs[i].idx >= Len(st.wems)
    THEN [st EXCEPT !.panic = TRUE]
    ELSE ReplaceOne(st, rs, i, st.wems[rs[i].idx + 1],
                    NewPadding(st.wems[rs[i].idx + 1], rs[i].len))

RECURSIVE ReplaceLoop(_, _, _)
ReplaceLoop(st, rs, i) ==
    IF i > Len(rs) \/ st.panic THEN st
    ELSE ReplaceLoop(ReplaceStep(st, rs, i), rs, i + 1)

ReplaceWems(ws, rs) ==
    ReplaceLoop([wems |-> ws, surplus |-> 0, panic |-> FALSE], SortByWemIndex(rs), 1)

(***************************************************************************)
(* HIRC objects: the sound object and its sound structure.                 *)
(***************************************************************************)
OBJECT_DESCRIPTOR_BYTES == 9
OBJECT_DESCRIPTOR_ID_BYTES == 4
OVERRIDE_EFFECTS_BYTES == 1
SFX_UNKNOWN_BYTES == 5
OPTIONAL_WEM_DESCRIPTOR_BYTES == 8
EFFECT_BYTES == 7
PARAMETER_TYPE_BYTES == 1
PARAMETER_VALUE_BYTES == 4
STRUCTURE_UNKNOWN_BYTES == 10
soundObjectId == 2
parameterLoopType == 58

NoReader == NewResettingReader(SrcZero, 0, 0)

\* NewEffectContainer: the container read at 0-based cursor c, and the cursor after.
NewEffectContainer(b, c) ==
    IF c + 1 > Len(b) THEN [ok |-> FALSE]
    ELSE LET count == b[c + 1]
         IN IF count = 0
            THEN [ok |-> TRUE, c |-> c + 1,
                  ctr |-> [count |-> 0, bypass |-> 0, effects |-> <<>>]]
            ELSE IF c + 2 + count * EFFECT_BYTES > Len(b) THEN [ok |-> FALSE]
            ELSE [ok |-> TRUE, c |-> c + 2 + count * EFFECT_BYTES,
                  ctr |-> [count |-> count, bypass |-> b[c + 2],
                           effects |-> [i \in 1..count |->
                              LET e == c + 2 + (i - 1) * EFFECT_BYTES
                              IN [index |-> b[e + 1], id |-> U32At(b, e + 1),
                                  pad |-> Slice(b, e + 5, 2)]]]]

\* The parameters of a sound structure: count parameters from cursor tstart,
\* the types first and then the values; c is the start of the structure and
\* length its size.
NewParameters(b, c, length, ec, tstart, count) ==
    LET vstart == tstart + count
        curr == vstart + count * PARAMETER_VALUE_BYTES
    IN IF curr > Len(b) THEN [ok |-> FALSE]
       ELSE [ok |-> TRUE, c |-> c + length,
             ss |-> [override |-> b[c + 1],
                     effects |-> ec.ctr,
                     unknown |-> Slice(b, ec.c, STRUCTURE_UNKNOWN_BYTES),
                     count |-> count,
                     types |-> Slice(b, tstart, count),
                     values |-> [i \in 1..count |->
                         Slice(b, vstart + (i - 1) * PARAMETER_VALUE_BYTES,
                               PARAMETER_VALUE_BYTES)],
                     rem |-> NewResettingReader(SrcFile, curr, length - (curr - c))]]

\* The part of a sound structure after its effect container ec.
NewSoundStructureAfter(b, c, length, ec) ==
    IF ~ec.ok THEN [ok |-> FALSE]
    ELSE IF ec.c + STRUCTURE_UNKNOWN_BYTES + 1 > Len(b) THEN [ok |-> FALSE]
    ELSE NewParameters(b, c, length, ec, ec.c + STRUCTURE_UNKNOWN_BYTES + 1,
                       b[ec.c + STRUCTURE_UNKNOWN_BYTES + 1])

\* NewSoundStructure: the structure of `length` bytes at cursor c.
NewSoundStructure(b, c, length) ==
    IF c + 1 > Len(b) THEN [ok |-> FALSE]
    ELSE NewSoundStructureAfter(b, c, length,
                                NewEffectContainer(b, c + OVERRIDE_EFFECTS_BYTES))

\* The sound object whose sound structure s has been read.
NewSfxVoiceSoundObjectWith(desc, b, c, ssOffset, s) ==
    IF ~s.ok THEN [ok |-> FALSE]
    ELSE [ok |-> TRUE, c |-> s.c,
          obj |-> [type |-> desc.type, length |-> desc.length,
                   objectId |-> desc.objectId,
                   unknown |-> Slice(b, c, SFX_UNKNOWN_BYTES),
                   wemId |-> U32At(b, c + SFX_UNKNOWN_BYTES),
                   wemLength |-> U32At(b, c + SFX_UNKNOWN_BYTES + 4),
                   soundType |-> b[ssOffset],
                   ss |-> s.ss,
                   reader |-> NoReader]]

\* ObjectDescriptor.NewSfxVoiceSoundObject: desc is the descriptor already
\* read, c the cursor at the start of the object's data.
NewSfxVoiceSoundObject(desc, b, c) ==
    LET dlen == desc.length - OBJECT_DESCRIPTOR_ID_BYTES
        ssOffset == c + SFX_UNKNOWN_BYTES + OPTIONAL_WEM_DESCRIPTOR_BYTES + 1
    IN IF ssOffset > Len(b) THEN [ok |-> FALSE]
       ELSE NewSfxVoiceSoundObjectWith(desc, b, c, ssOffset,
                NewSoundStructure(b, ssOffset, dlen - (ssOffset - c)))

\* An object the parser keeps opaque carries an empty sound structure.
NoStructure ==
    [override |-> 0, effects |-> [count |-> 0, bypass |-> 0, effects |-> <<>>],
     unknown |-> <<>>, count |-> 0, types |-> <<>>, values |-> <<>>,
     rem |-> NoReader]

\* ObjectDescriptor.NewUnknownObject.
NewUnknownObject(desc, b, c) ==
    LET dlen == desc.length - OBJECT_DESCRIPTOR_ID_BYTES
    IN [ok |-> TRUE, c |-> c + dlen,
        obj |-> [type |-> desc.type, length |-> desc.length,
                 objectId |-> desc.objectId,
                 unknown |-> <<>>, wemId |-> 0, wemLength |-> 0, soundType |-> 0,
                 ss |-> NoStructure,
                 reader |-> NewResettingReader(SrcFile, c, dlen)]]

IsSound(o) == o.type = soundObjectId

\* EffectContainer.WriteTo.
WriteEffectContainer(e) ==
    IF e.count > 0
    THEN [bytes |-> <<e.count, e.bypass>> \o
                    Flatten([i \in 1..Len(e.effects) |->
                        <<e.effects[i].index>> \o LE32(e.effects[i].id)
                            \o e.effects[i].pad]),
          n |-> 2 + Len(e.effects) * EFFECT_BYTES]
    ELSE [bytes |-> <<e.count>>, n |-> 1]

\* The sound structure written: ec is its effect container as written, cp the
\* copy of its remaining reader.
SoundStructureWritten(ss, ec, cp) ==
    [bytes |-> <<ss.override>> \o ec.bytes \o ss.unknown \o <<ss.count>>
               \o ss.types \o Flatten(ss.values) \o cp.bytes,
     n |-> OVERRIDE_EFFECTS_BYTES + ec.n + STRUCTURE_UNKNOWN_BYTES + 1
           + ss.count + ss.count * PARAMETER_VALUE_BYTES + Len(cp.bytes),
     ss |-> [ss EXCEPT !.rem = cp.rd]]

\* SoundStructure.WriteTo: the bytes, the count it reports and the structure
\* afterwards (its remaining reader has been read).
WriteSoundStructure(ss, f) ==
    SoundStructureWritten(ss, WriteEffectContainer(ss.effects), IoCopy(ss.rem, f))

WriteObjectDescriptor(o) == <<o.type>> \o LE32(o.length) \o LE32(o.objectId)

\* The sound object written, s its sound structure as written.
SfxVoiceSoundObjectWritten(o, s) ==
    [bytes |-> WriteObjectDescriptor(o) \o o.unknown \o LE32(o.wemId)
               \o LE32(o.wemLength) \o <<o.soundType>> \o s.bytes,
     n |-> OBJECT_DESCRIPTOR_BYTES + SFX_UNKNOWN_BYTES
           + OPTIONAL_WEM_DESCRIPTOR_BYTES + 1 + s.n,
     obj |-> [o EXCEPT !.ss = s.ss]]

\* SfxVoiceSoundObject.WriteTo.
WriteSfxVoiceSoundObject(o, f) ==
    SfxVoiceSoundObjectWritten(o, WriteSoundStructure(o.ss, f))

\* The opaque object written, cp the copy of its reader.
UnknownObjectWritten(o, cp) ==
    [bytes |-> WriteObjectDescriptor(o) \o cp.bytes,
     n |-> OBJECT_DESCRIPTOR_BYTES + Len(cp.bytes),
     obj |-> [o EXCEPT !.reader = cp.rd]]

\* UnknownObject.WriteTo.
WriteUnknownObject(o, f) == UnknownObjectWritten(o, IoCopy(o.reader, f))

WriteObject(o, f) ==
    IF IsSound(o) THEN WriteSfxVoiceSoundObject(o, f) ELSE WriteUnknownObject(o, f)

(***************************************************************************)
(* SoundBank sections.                                                     *)
(***************************************************************************)
OBJECT_COUNT_BYTES == 4

\* A section as File.sections holds it.  The DATA and HIRC header lengths
\* and contents are the variables dataLength, wems, hircLength and objects.
Section(k, id, length) ==
    [kind |-> k, id |-> id, length |-> length, version |-> 0, bankId |-> 0,
     reader |-> NoReader, wemIds |-> <<>>, count |-> 0]

\* SectionHeader.NewBankHeaderSection.
NewBankHeaderSection(hdr, b, c) ==
    IF c + BKHD_SECTION_BYTES > Len(b) THEN [ok |-> FALSE]
    ELSE LET remaining == U32(hdr.length - BKHD_SECTION_BYTES)
         IN [ok |-> TRUE, c |-> c + BKHD_SECTION_BYTES + remaining,
             sec |-> [Section("BKHD", hdr.id, hdr.length) EXCEPT
                        !.version = U32At(b, c), !.bankId = U32At(b, c + 4),
                        !.reader = NewResettingReader(SrcFile,
                                       c + BKHD_SECTION_BYTES, remaining)]]

\* The DIDX section whose descriptors descs have been read: a repeated wem id
\* panics.
NewDataIndexSectionWith(hdr, c, descs) ==
    IF \E i, j \in 1..Len(descs) : i < j /\ descs[i].id = descs[j].id
    THEN [ok |-> FALSE, panic |-> TRUE]
    ELSE [ok |-> TRUE, panic |-> FALSE, c |-> c + Len(descs) * DIDX_ENTRY_BYTES,
          descs |-> descs,
          sec |-> [Section("DIDX", hdr.id, hdr.length) EXCEPT
                     !.wemIds = [i \in 1..Len(descs) |-> descs[i].id],
                     !.count = Len(descs)]]

\* SectionHeader.NewDataIndexSection: hdr.Length / 12 descriptors.
NewDataIndexSection(hdr, b, c) ==
    LET wemCount == hdr.length \div DIDX_ENTRY_BYTES
    IN IF c + wemCount * DIDX_ENTRY_BYTES > Len(b) THEN [ok |-> FALSE, panic |-> FALSE]
       ELSE NewDataIndexSectionWith(hdr, c,
                [i \in 1..wemCount |->
                   LET e == c + (i - 1) * DIDX_ENTRY_BYTES
                   IN [id |-> U32At(b, e), offset |-> U32At(b, e + 4),
                       length |-> U32At(b, e + 8)]])

\* SectionHeader.NewDataSection: one wem per DIDX entry, its reader a window
\* of the file, its padding the window up to the next wem or the section end.
NewDataSection(hdr, b, c, descs) ==
    [ok |-> TRUE, c |-> c + hdr.length,
     ws |-> [i \in 1..Len(descs) |->
               LET start == c + descs[i].offset
                   end == start + descs[i].length
                   next == IF i = Len(descs) THEN c + hdr.length
                           ELSE c + descs[i + 1].offset
               IN [id |-> descs[i].id, offset |-> descs[i].offset,
                   length |-> descs[i].length,
                   reader |-> NewResettingReader(SrcFile, start, descs[i].length),
                   padding |-> NewResettingReader(SrcFile, end, next - end)]]]

\* SectionHeader.NewUnknownSection.
NewUnknownSection(hdr, b, c) ==
    [ok |-> TRUE, c |-> c + hdr.length,
     sec |-> [Section("UNK", hdr.id, hdr.length) EXCEPT
                !.reader = NewResettingReader(SrcFile, c, hdr.length)]]

\* The ObjectDescriptor at cursor c.
NewObjectDescriptor(b, c) ==
    [type |-> b[c + 1], length |-> U32At(b, c + 1), objectId |-> U32At(b, c + 5)]

\* The object of descriptor desc, its data at cursor c.
NewObject(desc, b, c) ==
    IF desc.type = soundObjectId
    THEN NewSfxVoiceSoundObject(desc, b, c)
    ELSE NewUnknownObject(desc, b, c)

\* The objects of a HIRC section: k more objects are read from cursor c.
RECURSIVE ReadObjects(_, _, _, _)
\* The object o has been read; k more follow.
ReadObjectsAfter(b, o, k, acc) ==
    IF ~o.ok THEN [ok |-> FALSE]
    ELSE ReadObjects(b, o.c, k, Append(acc, o.obj))

ReadObjects(b, c, k, acc) ==
    IF k = 0 THEN [ok |-> TRUE, c |-> c, objs |-> acc]
    ELSE IF c + OBJECT_DESCRIPTOR_BYTES > Len(b) THEN [ok |-> FALSE]
    ELSE ReadObjectsAfter(b, NewObject(NewObjectDescriptor(b, c), b,
                                       c + OBJECT_DESCRIPTOR_BYTES),
                          k - 1, acc)

\* The HIRC section whose objects r have been read.
NewObjectHierarchySectionWith(hdr, b, c, r) ==
    IF ~r.ok THEN [ok |-> FALSE]
    ELSE [ok |-> TRUE, c |-> r.c, objs |-> r.objs,
          sec |-> [Section("HIRC", hdr.id, hdr.length) EXCEPT !.count = U32At(b, c)]]

\* SectionHeader.NewObjectHierarchySection.
NewObjectHierarchySection(hdr, b, c) ==
    IF c + OBJECT_COUNT_BYTES > Len(b) THEN [ok |-> FALSE]
    ELSE NewObjectHierarchySectionWith(hdr, b, c,
             ReadObjects(b, c + OBJECT_COUNT_BYTES, U32At(b, c), <<>>))

\* The position of the loop parameter in a sound structure, 0 if it has none.
LoopSlot(ss) ==
    IF \E i \in 1..Len(ss.types) : ss.types[i] = parameterLoopType
    THEN CHOOSE i \in 1..Len(ss.types) :
            /\ ss.types[i] = parameterLoopType
            /\ \A j \in 1..(i - 1) : ss.types[j] # parameterLoopType
    ELSE 0

\* ObjectHierarchySection.wemToObject: the index in objs of the sound object
\* of a wem id, 0 if there is none.
WemToObject(objs, id) ==
    IF \E i \in 1..Len(objs) : IsSound(objs[i]) /\ objs[i].wemId = id
    THEN CHOOSE i \in 1..Len(objs) :
            /\ IsSound(objs[i]) /\ objs[i].wemId = id
            /\ \A j \in (i + 1)..Len(objs) : ~(IsSound(objs[j]) /\ objs[j].wemId = id)
    ELSE 0

\* The loop value a sound structure with a loop parameter holds.
LoopValueOf(ss) == U32At(ss.values[LoopSlot(ss)], 0)

\* ObjectHierarchySection.loopOf as built at load: the loop value of every
\* wem id whose sound structure has a loop parameter.
BuildLoopOf(objs) ==
    [id \in {objs[i].wemId : i \in {j \in 1..Len(objs) :
                /\ IsSound(objs[j]) /\ LoopSlot(objs[j].ss) # 0
                /\ WemToObject(objs, objs[j].wemId) = j}} |->
       LoopValueOf(objs[WemToObject(objs, id)].ss)]

(***************************************************************************)
(* The SoundBank File: NewFile and WriteTo.                                *)
(***************************************************************************)
\* The SectionHeader at cursor c.
NewSectionHeader(b, c) == [id |-> Slice(b, c, 4), length |-> U32At(b, c + 4)]

\* The File after a BKHD, DIDX, DATA, HIRC or unrecognised section r was
\* read: an error ends the parse.
PutBankHeaderSection(st, r) ==
    IF ~r.ok THEN [st EXCEPT !.ok = FALSE]
    ELSE [st EXCEPT !.c = r.c, !.sections = Append(@, r.sec)]

PutDataIndexSection(st, r) ==
    IF ~r.ok THEN [st EXCEPT !.ok = FALSE, !.panic = r.panic]
    ELSE [st EXCEPT !.c = r.c, !.sections = Append(@, r.sec),
                    !.hasIndex = TRUE, !.descs = r.descs]

PutDataSection(st, hdr, c, r) ==
    [st EXCEPT !.c = r.c,
               !.sections = Append(@, Section("DATA", hdr.id, hdr.length)),
               !.hasData = TRUE, !.wems = r.ws,
               !.dataLength = hdr.length, !.dataStart = U32(c)]

PutObjectHierarchySection(st, hdr, r) ==
    IF ~r.ok THEN [st EXCEPT !.ok = FALSE]
    ELSE [st EXCEPT !.c = r.c, !.sections = Append(@, r.sec),
                    !.hasObjects = TRUE, !.hircLength = hdr.length,
                    !.objects = r.objs, !.loopOf = BuildLoopOf(r.objs)]

PutUnknownSection(st, r) ==
    [st EXCEPT !.c = r.c, !.sections = Append(@, r.sec)]

\* One iteration of the loop of NewFile: the section of header hdr, its data
\* at cursor c.  A DATA section before any DIDX section panics.
ReadSection(b, st, hdr, c) ==
    CASE hdr.id = bkhdHeaderId ->
           PutBankHeaderSection(st, NewBankHeaderSection(hdr, b, c))
      [] hdr.id = didxHeaderId ->
           PutDataIndexSection(st, NewDataIndexSection(hdr, b, c))
      [] hdr.id = dataHeaderId ->
           IF ~st.hasIndex THEN [st EXCEPT !.ok = FALSE, !.panic = TRUE]
           ELSE PutDataSection(st, hdr, c, NewDataSection(hdr, b, c, st.descs))
      [] hdr.id = hircHeaderId ->
           PutObjectHierarchySection(st, hdr, NewObjectHierarchySection(hdr, b, c))
      [] OTHER ->
           PutUnknownSection(st, NewUnknownSection(hdr, b, c))

\* The loop of NewFile over the sections, from cursor st.c.
RECURSIVE ReadSections(_, _)
ReadSections(b, st) ==
    IF ~st.ok \/ st.c >= Len(b) THEN st
    ELSE IF st.c + SECTION_HEADER_BYTES > Len(b) THEN [st EXCEPT !.ok = FALSE]
    ELSE ReadSections(b, ReadSection(b, st, NewSectionHeader(b, st.c),
                                     st.c + SECTION_HEADER_BYTES))

EmptyFile ==
    [ok |-> TRUE, panic |-> FALSE, c |-> 0, sections |-> <<>>,
     hasIndex |-> FALSE, descs |-> <<>>, hasData |-> FALSE, wems |-> <<>>,
     dataLength |-> 0, dataStart |-> 0, hasObjects |-> FALSE, hircLength |-> 0,
     objects |-> <<>>, loopOf |-> <<>>]

\* The check that ends NewFile: a File without a DATA section or wems is an
\* error.
RequireWems(st) ==
    IF st.ok /\ (~st.hasData \/ Len(st.wems) = 0)
    THEN [st EXCEPT !.ok = FALSE]
    ELSE st

\* bnk.NewFile: the File, or ok = FALSE when an error is returned.
NewFile(b) == RequireWems(ReadSections(b, EmptyFile))

WriteSectionHeader(id, length) == id \o LE32(length)

\* The wem whose descriptor the DIDX DescriptorMap holds for a wem id; the
\* map shares its descriptors with the wems.
DescriptorOf(ws, id) == ws[CHOOSE i \in 1..Len(ws) : ws[i].id = id]

WriteDescriptor(w) == LE32(w.id) \o LE32(w.offset) \o LE32(w.length)

\* The result of a section's WriteTo that changes neither wems nor objects.
SectionWritten(c, bytes, n, sec) ==
    [bytes |-> bytes, n |-> n, sec |-> sec, wems |-> c.wems, objects |-> c.objects]

\* The BKHD section written, cp the copy of its remaining reader.
BankHeaderSectionWritten(c, sec, cp) ==
    SectionWritten(c,
        WriteSectionHeader(sec.id, sec.length) \o LE32(sec.version)
            \o LE32(sec.bankId) \o cp.bytes,
        SECTION_HEADER_BYTES + BKHD_SECTION_BYTES + Len(cp.bytes),
        [sec EXCEPT !.reader = cp.rd])

\* BankHeaderSection.WriteTo.
WriteBankHeaderSection(c, sec, f) ==
    BankHeaderSectionWritten(c, sec, IoCopy(sec.reader, f))

\* DataIndexSection.WriteTo.
WriteDataIndexSection(c, sec) ==
    SectionWritten(c,
        WriteSectionHeader(sec.id, sec.length) \o
            Flatten([i \in 1..Len(sec.wemIds) |->
                       WriteDescriptor(DescriptorOf(c.wems, sec.wemIds[i]))]),
        SECTION_HEADER_BYTES + Len(sec.wemIds) * DIDX_ENTRY_BYTES,
        sec)

\* The wem written: cr is the copy of its reader, cpad that of its padding.
WemWritten(w, cr, cpad) ==
    [bytes |-> cr.bytes \o cpad.bytes,
     n |-> Len(cr.bytes) + Len(cpad.bytes),
     wem |-> [w EXCEPT !.reader = cr.rd, !.padding = cpad.rd]]

\* A plausible bug: the padding after the wem is not written.
WriteWemOnly(w, f) ==
    WemWritten(w, IoCopy(w.reader, f), [bytes |-> <<>>, rd |-> w.padding])

\* The copy of one wem and of its padding.
WriteWem(w, f) == WemWritten(w, IoCopy(w.reader, f), IoCopy(w.padding, f))

\* The DATA section written, cs the wems as written.
DataSectionWritten(c, sec, cs) ==
    [bytes |-> WriteSectionHeader(sec.id, c.dataLength) \o
               Flatten([i \in 1..Len(cs) |-> cs[i].bytes]),
     n |-> SECTION_HEADER_BYTES + SumSeq([i \in 1..Len(cs) |-> cs[i].n]),
     sec |-> sec,
     wems |-> [i \in 1..Len(cs) |-> cs[i].wem],
     objects |-> c.objects]

\* DataSection.WriteTo.
WriteDataSection(c, sec, f) ==
    DataSectionWritten(c, sec, [i \in 1..Len(c.wems) |-> WriteWem(c.wems[i], f)])

\* The HIRC section written, cs the objects as written.
ObjectHierarchySectionWritten(c, sec, cs) ==
    [bytes |-> WriteSectionHeader(sec.id, c.hircLength) \o LE32(sec.count) \o
               Flatten([i \in 1..Len(cs) |-> cs[i].bytes]),
     n |-> SECTION_HEADER_BYTES + OBJECT_COUNT_BYTES
           + SumSeq([i \in 1..Len(cs) |-> cs[i].n]),
     sec |-> sec,
     wems |-> c.wems,
     objects |-> [i \in 1..Len(cs) |-> cs[i].obj]]

\* ObjectHierarchySection.WriteTo.
WriteObjectHierarchySection(c, sec, f) ==
    ObjectHierarchySectionWritten(c, sec,
        [i \in 1..Len(c.objects) |-> WriteObject(c.objects[i], f)])

\* The unrecognised section written, cp the copy of its reader.
UnknownSectionWritten(c, sec, cp) ==
    SectionWritten(c,
        WriteSectionHeader(sec.id, sec.length) \o cp.bytes,
        SECTION_HEADER_BYTES + Len(cp.bytes),
        [sec EXCEPT !.reader = cp.rd])

\* UnknownSection.WriteTo.
WriteUnknownSection(c, sec, f) == UnknownSectionWritten(c, sec, IoCopy(sec.reader, f))

\* Section.WriteTo of one section of the SoundBank c.
WriteSection(c, sec, f) ==
    CASE sec.kind = "BKHD" -> WriteBankHeaderSection(c, sec, f)
      [] sec.kind = "DIDX" -> WriteDataIndexSection(c, sec)
      [] sec.kind = "DATA" -> WriteDataSection(c, sec, f)
      [] sec.kind = "HIRC" -> WriteObjectHierarchySection(c, sec, f)
      [] OTHER -> WriteUnknownSection(c, sec, f)

\* The SoundBank after its sections were written one after the other, rs the
\* results: the wems are as the DATA section left them, the objects as the
\* HIRC section did.
BnkWritten(c, rs) ==
    [bytes |-> Flatten([i \in 1..Len(rs) |-> rs[i].bytes]),
     n |-> SumSeq([i \in 1..Len(rs) |-> rs[i].n]),
     sections |-> [i \in 1..Len(rs) |-> rs[i].sec],
     wems |-> IF \E i \in 1..Len(rs) : rs[i].sec.kind = "DATA"
              THEN rs[CHOOSE i \in 1..Len(rs) : rs[i].sec.kind = "DATA"].wems
              ELSE c.wems,
     objects |-> IF \E i \in 1..Len(rs) : rs[i].sec.kind = "HIRC"
                 THEN rs[CHOOSE i \in 1..Len(rs) : rs[i].sec.kind = "HIRC"].objects
                 ELSE c.objects]

\* File.WriteTo of a SoundBank c = [sections, wems, dataLength, hircLength,
\* objects]: the bytes written, the count returned and the container after.
WriteBnk(c, f) ==
    BnkWritten(c, [i \in 1..Len(c.sections) |-> WriteSection(c, c.sections[i], f)])

(***************************************************************************)
(* The SoundBank File: ReplaceWems, LoopOf and ReplaceLoopOf.              *)
(***************************************************************************)
\* The File after wwise.ReplaceWems returned r: a positive surplus is added to
\* the DATA header length.
BnkReplaced(length, r) ==
    [wems |-> r.wems,
     dataLength |-> IF ~r.panic /\ r.surplus > 0
                    THEN U32(length + U32(r.surplus)) ELSE length,
     surplus |-> r.surplus,
     panic |-> r.panic]

\* bnk File.ReplaceWems: the wems, the DATA header length and whether the
\* call panicked part-way.
BnkReplaceWems(ws, length, rs) == BnkReplaced(length, ReplaceWems(ws, rs))

LoopValue(l, v) == [loops |-> l, value |-> v]

\* File.LoopOf of the wem at 0-based index i.
LoopOf(ws, hasObjects, lo, i) ==
    IF i < 0 \/ i >= Len(ws) \/ ~hasObjects THEN LoopValue(FALSE, 0)
    ELSE IF ws[i + 1].id \in DOMAIN lo
         THEN LoopValue(TRUE, lo[ws[i + 1].id])
         ELSE LoopValue(FALSE, 0)

\* A plausible bug: the type byte of the parameter is not counted.
LoopDeltaShort == PARAMETER_VALUE_BYTES

\* lengthIncrease and lengthDecrease: the bytes of one parameter.
LoopDelta == PARAMETER_TYPE_BYTES + PARAMETER_VALUE_BYTES

RemoveAt(s, k) == SubSeq(s, 1, k - 1) \o SubSeq(s, k + 1, Len(s))

\* ReplaceLoopOf returns without a change.
LoopUnchanged(c) ==
    [objects |-> c.objects, loopOf |-> c.loopOf, hircLength |-> c.hircLength]

\* A plausible bug: the removal leaves the HIRC header length as it was.
RemoveLoopKeepHeader(c, id, o, k) ==
    [objects |-> [c.objects EXCEPT
                     ![o].ss.count = U8(@ - 1),
                     ![o].ss.types = RemoveAt(@, k),
                     ![o].ss.values = RemoveAt(@, k),
                     ![o].length = U32(@ - LoopDelta)],
     loopOf |-> [w \in DOMAIN c.loopOf \ {id} |-> c.loopOf[w]],
     hircLength |-> c.hircLength]

\* The loop parameter at position k of object o is removed.
RemoveLoop(c, id, o, k) ==
    [objects |-> [c.objects EXCEPT
                     ![o].ss.count = U8(@ - 1),
                     ![o].ss.types = RemoveAt(@, k),
                     ![o].ss.values = RemoveAt(@, k),
                     ![o].length = U32(@ - LoopDelta)],
     loopOf |-> [w \in DOMAIN c.loopOf \ {id} |-> c.loopOf[w]],
     hircLength |-> U32(c.hircLength - LoopDelta)]

\* The loop parameter at position k of object o gets a new value.
OverwriteLoop(c, id, o, k, loop) ==
    [objects |-> [c.objects EXCEPT ![o].ss.values[k] = LE32(loop.value)],
     loopOf |-> [c.loopOf EXCEPT ![id] = loop.value],
     hircLength |-> c.hircLength]

\* A plausible bug: the new loop parameter is put before the others.
PrependLoop(c, id, o, loop) ==
    [objects |-> [c.objects EXCEPT
                     ![o].ss.count = U8(@ + 1),
                     ![o].ss.types = <<parameterLoopType>> \o @,
                     ![o].ss.values = <<LE32(loop.value)>> \o @,
                     ![o].length = U32(@ + LoopDelta)],
     loopOf |-> [w \in DOMAIN c.loopOf \cup {id} |->
                   IF w = id THEN loop.value ELSE c.loopOf[w]],
     hircLength |-> U32(c.hircLength + LoopDelta)]

\* A loop parameter is appended to the parameters of object o.
AppendLoop(c, id, o, loop) ==
    [objects |-> [c.objects EXCEPT
                     ![o].ss.count = U8(@ + 1),
                     ![o].ss.types = Append(@, parameterLoopType),
                     ![o].ss.values = Append(@, LE32(loop.value)),
                     ![o].length = U32(@ + LoopDelta)],
     loopOf |-> [w \in DOMAIN c.loopOf \cup {id} |->
                   IF w = id THEN loop.value ELSE c.loopOf[w]],
     hircLength |-> U32(c.hircLength + LoopDelta)]

\* The edit of the sound structure of object o, whose loop parameter is at
\* position k (0 if it has none).
ReplaceLoopIn(c, id, o, k, loop) ==
    IF ~loop.loops
    THEN (IF k = 0 THEN LoopUnchanged(c) ELSE RemoveLoop(c, id, o, k))
    ELSE IF id \in DOMAIN c.loopOf
    THEN (IF k = 0 THEN LoopUnchanged(c) ELSE OverwriteLoop(c, id, o, k, loop))
    ELSE AppendLoop(c, id, o, loop)

\* The edit for the wem id, o the index of its sound object (0 if none).
ReplaceLoopOfId(c, id, o, loop) ==
    IF (id \notin DOMAIN c.loopOf /\ ~loop.loops)
       \/ (id \in DOMAIN c.loopOf /\ loop.loops /\ c.loopOf[id] = loop.value)
    THEN LoopUnchanged(c)
    ELSE IF o = 0 THEN LoopUnchanged(c)
    ELSE ReplaceLoopIn(c, id, o, LoopSlot(c.objects[o].ss), loop)

\* File.ReplaceLoopOf on c = [wems, hasObjects, objects, loopOf, hircLength].
ReplaceLoopOf(c, i, loop) ==
    IF i < 0 \/ i >= Len(c.wems) \/ ~c.hasObjects THEN LoopUnchanged(c)
    ELSE ReplaceLoopOfId(c, c.wems[i + 1].id,
                         WemToObject(c.objects, c.wems[i + 1].id), loop)

(***************************************************************************)
(* The File Package (pck).                                                 *)
(***************************************************************************)
HEADER_BYTES == 4 + 4 + 44 + 4
INDEX_ENTRY_BYTES == 4 + 4 + 4 + 4 + 4

\* NewHeader.
NewHeader(b) ==
    IF Len(b) < HEADER_BYTES THEN [ok |-> FALSE]
    ELSE [ok |-> TRUE,
          hdr |-> [identifier |-> Slice(b, 0, 4), length |-> U32At(b, 4),
                   unknown |-> Slice(b, 8, 44), wemCount |-> U32At(b, 52)]]

\* NewDataIndex at cursor c: the index entry and the descriptor it holds.
NewDataIndex(b, c) ==
    IF c + INDEX_ENTRY_BYTES > Len(b) THEN [ok |-> FALSE]
    ELSE [ok |-> TRUE,
          idx |-> [type |-> U32At(b, c + 4), unknown |-> U32At(b, c + 16)],
          desc |-> [id |-> U32At(b, c), offset |-> U32At(b, c + 12),
                    length |-> U32At(b, c + 8)]]

\* A plausible bug: newWem does not compare the cursor with the offset.
RECURSIVE NewWemsUnchecked(_, _, _, _)
NewWemsUnchecked(descs, k, c, acc) ==
    IF k > Len(descs) THEN [ok |-> TRUE, wems |-> acc]
    ELSE NewWemsUnchecked(descs, k + 1, c + descs[k].length,
             Append(acc, [id |-> descs[k].id, offset |-> descs[k].offset,
                          length |-> descs[k].length,
                          reader |-> NewResettingReader(SrcFile, c, descs[k].length),
                          padding |-> NewResettingReader(SrcZero, 0, 0)]))

\* The loop of newWem calls over the descriptors, from cursor c.
RECURSIVE NewWems(_, _, _, _)
NewWems(descs, k, c, acc) ==
    IF k > Len(descs) THEN [ok |-> TRUE, wems |-> acc]
    ELSE IF U32(c) # descs[k].offset THEN [ok |-> FALSE, wems |-> acc]
    ELSE NewWems(descs, k + 1, c + descs[k].length,
                 Append(acc, [id |-> descs[k].id, offset |-> descs[k].offset,
                              length |-> descs[k].length,
                              reader |-> NewResettingReader(SrcFile, c, descs[k].length),
                              padding |-> NewResettingReader(SrcZero, 0, 0)]))

NoPck == [header |-> <<>>, indexes |-> <<>>, padding |-> 0]

\* NewFile returns an error.
BadPck == [ok |-> FALSE, pck |-> NoPck, wems |-> <<>>]

\* The cursor after the index of a File Package of header hdr.
IndexEnd(hdr) == HEADER_BYTES + hdr.wemCount * INDEX_ENTRY_BYTES

\* The File whose header, index entries is, padding word and wems ws have
\* been read.
PckFileWith(b, hdr, is, ws) ==
    IF ~ws.ok THEN BadPck
    ELSE [ok |-> TRUE,
          pck |-> [header |-> hdr,
                   indexes |-> [i \in 1..Len(is) |-> is[i].idx],
                   padding |-> U32At(b, IndexEnd(hdr))],
          wems |-> ws.wems]

\* The loop of NewFile over the index entries is, after the padding word.
PckReadWems(b, hdr, is) ==
    PckFileWith(b, hdr, is,
                NewWems([i \in 1..Len(is) |-> is[i].desc], 1, IndexEnd(hdr) + 4, <<>>))

\* The part of NewFile after the header h.
PckReadIndexes(b, h) ==
    IF ~h.ok THEN BadPck
    ELSE IF IndexEnd(h.hdr) + 4 > Len(b) THEN BadPck
    ELSE PckReadWems(b, h.hdr,
             [i \in 1..h.hdr.wemCount |->
                NewDataIndex(b, HEADER_BYTES + (i - 1) * INDEX_ENTRY_BYTES)])

\* pck.NewFile.
PckNewFile(b) == PckReadIndexes(b, NewHeader(b))

\* Header.WriteTo.
WriteHeader(h) == h.identifier \o LE32(h.length) \o h.unknown \o LE32(h.wemCount)

\* DataIndex.WriteTo; the descriptor is the one the wem shares.
WriteDataIndex(idx, w) ==
    LE32(w.id) \o LE32(idx.type) \o LE32(w.length) \o LE32(w.offset)
        \o LE32(idx.unknown)

\* The File Package written, cs the copies of the wem readers.
PckWritten(p, ws, cs) ==
    [bytes |-> WriteHeader(p.header) \o
               Flatten([i \in 1..Len(p.indexes) |->
                          WriteDataIndex(p.indexes[i], ws[i])])
               \o LE32(p.padding)
               \o Flatten([i \in 1..Len(ws) |-> cs[i].bytes]),
     n |-> HEADER_BYTES + Len(p.indexes) * INDEX_ENTRY_BYTES + 4
           + SumSeq([i \in 1..Len(ws) |-> Len(cs[i].bytes)]),
     wems |-> [i \in 1..Len(ws) |-> [ws[i] EXCEPT !.reader = cs[i].rd]]]

\* pck File.WriteTo: only the wem readers are copied after the indexes.
WritePck(p, ws, f) ==
    PckWritten(p, ws, [i \in 1..Len(ws) |-> IoCopy(ws[i].reader, f)])

\* pck File.ReplaceWems.
PckReplaceWems(ws, rs) == ReplaceWems(ws, rs)

(***************************************************************************)
(* Input files.  A SoundBank is BKHD, DIDX, DATA, then optionally HIRC and *)
(* an unrecognised section; a File Package is its header, its index, the   *)
(* opaque word and the wems back to back.                                  *)
(***************************************************************************)
Zeros(n) == [i \in 1..n |-> 0]

WemBytes(i, n) == [k \in 1..n |-> (40 * i + k) % 256]

WemIdOf(i) == 100 + i

AlignUp(x) == ((x + WemAlign - 1) \div WemAlign) * WemAlign

\* The offset of the i-th wem (1-based) of a DATA section whose wems have the
\* lengths lens and which keeps extra[i] whole alignment units of padding.
RECURSIVE WemOffset(_, _, _)
WemOffset(lens, extra, i) ==
    IF i = 1 THEN 0
    ELSE AlignUp(WemOffset(lens, extra, i - 1) + lens[i - 1])
         + WemAlign * extra[i - 1]

\* The most parameters the one-byte ParameterCount of a sound structure can
\* announce.
MaxParams == 255

\* The parameter list of a sound structure: the loop parameter, if any, alone,
\* before or after one other parameter, or twice.
ParamTypes(loop, pos) ==
    IF pos = "full"
    THEN [k \in 1..MaxParams |->
            IF loop.loops /\ k = MaxParams THEN parameterLoopType ELSE 0]
    ELSE IF ~loop.loops THEN (IF pos = "only" THEN <<>> ELSE <<0>>)
    ELSE CASE pos = "only" -> <<parameterLoopType>>
           [] pos = "first" -> <<parameterLoopType, 0>>
           [] pos = "twice" -> <<parameterLoopType, parameterLoopType>>
           [] OTHER -> <<0, parameterLoopType>>

ParamValues(loop, pos) ==
    IF pos = "full"
    THEN Flatten([k \in 1..MaxParams |->
                    IF loop.loops /\ k = MaxParams
                    THEN LE32(loop.value) ELSE <<7, 0, 0, 0>>])
    ELSE IF ~loop.loops THEN (IF pos = "only" THEN <<>> ELSE <<7, 0, 0, 0>>)
    ELSE CASE pos = "only" -> LE32(loop.value)
           [] pos = "first" -> LE32(loop.value) \o <<7, 0, 0, 0>>
           [] pos = "twice" -> LE32(loop.value) \o <<7, 0, 0, 0>>
           [] OTHER -> <<7, 0, 0, 0>> \o LE32(loop.value)

\* The bytes of an object: its type, the length of what follows the length
\* field, its id and its data.
ObjectBytes(type, id, data) ==
    <<type>> \o LE32(Len(data) + OBJECT_DESCRIPTOR_ID_BYTES) \o LE32(id) \o data

\* The bytes of the sound object of the i-th wem.
SoundObjectBytes(i, len, loop, pos) ==
    ObjectBytes(soundObjectId, 50 + i,
        <<1, 0, 0, 0, 0>> \o LE32(WemIdOf(i)) \o LE32(len) \o <<0>>
        \o <<0>> \o (IF i % 2 = 1 THEN <<1, 0, 0, 5, 0, 0, 0, 0, 0>> ELSE <<0>>)
        \o <<1, 2, 3, 4, 5, 6, 7, 8, 9, 10>>
        \o <<Len(ParamTypes(loop, pos))>> \o ParamTypes(loop, pos)
        \o ParamValues(loop, pos) \o <<9, 9>>)

OtherObjectBytes == ObjectBytes(3, 77, <<5, 6>>)

\* The padding after the i-th wem of the bank of cfg (see MakeBnk).
WemPadding(cfg, i) ==
    IF i = Len(cfg.lens) THEN cfg.tail
    ELSE WemOffset(cfg.lens, cfg.extra, i + 1) - WemOffset(cfg.lens, cfg.extra, i)
         - cfg.lens[i]

\* A section: its id, the length of its data and its data.
SectionBytes(id, data) == id \o LE32(Len(data)) \o data

\* The data of a HIRC section: the object count and the objects.
HircBytes(objs) == LE32(Len(objs)) \o Flatten(objs)

\* cfg = [lens, extra, tail, loops, pos, unk]: the wem lengths, the extra
\* padding units per wem, the padding after the last wem, the loop of each
\* sound object (one per leading wem), the position of the loop parameter and
\* whether unrecognised objects and sections are present.
MakeBnk(cfg) ==
    SectionBytes(bkhdHeaderId, LE32(120) \o LE32(9) \o <<1, 2>>)
    \o SectionBytes(didxHeaderId,
           Flatten([i \in 1..Len(cfg.lens) |->
                      LE32(WemIdOf(i)) \o LE32(WemOffset(cfg.lens, cfg.extra, i))
                         \o LE32(cfg.lens[i])]))
    \o SectionBytes(dataHeaderId,
           Flatten([i \in 1..Len(cfg.lens) |->
                      WemBytes(i, cfg.lens[i]) \o Zeros(WemPadding(cfg, i))]))
    \o (IF Len(cfg.loops) > 0 \/ cfg.unk
        THEN SectionBytes(hircHeaderId,
                 HircBytes((IF cfg.unk THEN <<OtherObjectBytes>> ELSE <<>>) \o
                           [i \in 1..Len(cfg.loops) |->
                              SoundObjectBytes(i, cfg.lens[i], cfg.loops[i], cfg.pos)]))
        ELSE <<>>)
    \o (IF cfg.unk THEN SectionBytes(<<83, 84, 73, 68>>, <<7, 8, 9>>) ELSE <<>>)

\* A File Package whose wems have the lengths lens.
MakePck(lens) ==
    LET n == Len(lens)
        start == HEADER_BYTES + n * INDEX_ENTRY_BYTES + 4
        off == [i \in 1..n |-> start + SumSeq(SubSeq(lens, 1, i - 1))]
    IN <<65, 75, 80, 75>> \o LE32(start - 8) \o [i \in 1..44 |-> i] \o LE32(n)
       \o Flatten([i \in 1..n |->
                     LE32(WemIdOf(i)) \o LE32(1) \o LE32(lens[i]) \o LE32(off[i])
                        \o LE32(0)])
       \o LE32(1)
       \o Flatten([i \in 1..n |-> WemBytes(i, lens[i])])

\* One section of a SoundBank whose DIDX section lists the wem ids ids and
\* whose other sections are those of MakeBnk(cfg); "STID" and "INIT" are
\* sections the parser does not recognise.
Part(name, ids, cfg) ==
    CASE name = "BKHD" -> SectionBytes(bkhdHeaderId, LE32(120) \o LE32(9) \o <<1, 2>>)
      [] name = "DIDX" ->
           SectionBytes(didxHeaderId,
               Flatten([i \in 1..Len(ids) |->
                          LE32(ids[i]) \o LE32(WemOffset(cfg.lens, cfg.extra, i))
                             \o LE32(cfg.lens[i])]))
      [] name = "DATA" ->
           SectionBytes(dataHeaderId,
               Flatten([i \in 1..Len(cfg.lens) |->
                          WemBytes(i, cfg.lens[i]) \o Zeros(WemPadding(cfg, i))]))
      [] name = "HIRC" ->
           SectionBytes(hircHeaderId,
               HircBytes(<<OtherObjectBytes>> \o
                         [i \in 1..Len(cfg.loops) |->
                            SoundObjectBytes(i, cfg.lens[i], cfg.loops[i], cfg.pos)]))
      [] name = "STID" -> SectionBytes(<<83, 84, 73, 68>>, <<7, 8, 9>>)
      [] OTHER -> SectionBytes(<<73, 78, 73, 84>>, <<>>)

\* The SoundBank file made of the sections order names, one after the other.
MakeBnkOf(order, ids, cfg) ==
    Flatten([i \in 1..Len(order) |-> Part(order[i], ids, cfg)])

\* A File Package whose index entries declare the lengths lens and the
\* offsets offs, followed by the bytes of the wems.
MakePckAt(lens, offs) ==
    <<65, 75, 80, 75>>
    \o LE32(HEADER_BYTES + Len(lens) * INDEX_ENTRY_BYTES + 4 - 8)
    \o [i \in 1..44 |-> i] \o LE32(Len(lens))
    \o Flatten([i \in 1..Len(lens) |->
                  LE32(WemIdOf(i)) \o LE32(1) \o LE32(lens[i]) \o LE32(offs[i])
                     \o LE32(0)])
    \o LE32(1)
    \o Flatten([i \in 1..Len(lens) |-> WemBytes(i, lens[i])])

(***************************************************************************)
(* The container as a state machine: load, then ReplaceWems, ReplaceLoopOf *)
(* and WriteTo calls.                                                      *)
(***************************************************************************)
NoCall ==
    [op |-> "load", reqs |-> <<>>, idx |-> 0, loop |-> LoopValue(FALSE, 0),
     prev |-> [op |-> "none", idx |-> 0]]

\* The record of a call: its arguments, and which call came before it.
Call(op, rs, i, loop) ==
    [op |-> op, reqs |-> rs, idx |-> i, loop |-> loop,
     prev |-> [op |-> last.op, idx |-> last.idx]]

HasObjects(secs) == \E i \in 1..Len(secs) : secs[i].kind = "HIRC"

\* The container in the variables, as the operators above take it.
Bnk == [sections |-> sections, wems |-> wems, dataLength |-> dataLength,
        hircLength |-> hircLength, objects |-> objects, loopOf |-> loopOf,
        hasObjects |-> HasObjects(sections)]

\* Open of a SoundBank (k = "bnk") or of a File Package (k = "pck").
Load(k, f) ==
    /\ kind = k
    /\ file = f
    /\ IF k = "bnk"
       THEN \E c \in {NewFile(f)} :
               /\ c.ok
               /\ sections = c.sections
               /\ wems = c.wems
               /\ dataLength = c.dataLength
               /\ dataStart = c.dataStart
               /\ hircLength = c.hircLength
               /\ objects = c.objects
               /\ loopOf = c.loopOf
               /\ pck = NoPck
       ELSE \E c \in {PckNewFile(f)} :
               /\ c.ok
               /\ sections = <<>>
               /\ wems = c.wems
               /\ dataLength = 0
               /\ dataStart = 0
               /\ hircLength = 0
               /\ objects = <<>>
               /\ loopOf = <<>>
               /\ pck = c.pck
    /\ panicked = FALSE
    /\ last = NoCall
    /\ out = <<>>
    /\ written = 0
    /\ nwrites = 0
    /\ ncalls = 0

\* Open of the file f of kind k has not been called yet.
Unopened(k, f) ==
    /\ kind = k
    /\ file = f
    /\ sections = <<>>
    /\ wems = <<>>
    /\ dataLength = 0
    /\ dataStart = 0
    /\ hircLength = 0
    /\ objects = <<>>
    /\ loopOf = <<>>
    /\ pck = NoPck
    /\ panicked = FALSE
    /\ last = [NoCall EXCEPT !.op = "file"]
    /\ out = <<>>
    /\ written = 0
    /\ nwrites = 0
    /\ ncalls = 0

\* The record of an Open that returned no container: an error, or a panic.
NotOpened(panic) == [NoCall EXCEPT !.op = IF panic THEN "panic" ELSE "error"]

\* Open of a SoundBank, c the result of NewFile.
OpenBnk(c) ==
    /\ sections' = (IF c.ok THEN c.sections ELSE <<>>)
    /\ wems' = (IF c.ok THEN c.wems ELSE <<>>)
    /\ dataLength' = (IF c.ok THEN c.dataLength ELSE 0)
    /\ dataStart' = (IF c.ok THEN c.dataStart ELSE 0)
    /\ hircLength' = (IF c.ok THEN c.hircLength ELSE 0)
    /\ objects' = (IF c.ok THEN c.objects ELSE <<>>)
    /\ loopOf' = (IF c.ok THEN c.loopOf ELSE <<>>)
    /\ pck' = NoPck
    /\ panicked' = c.panic
    /\ last' = (IF c.ok THEN NoCall ELSE NotOpened(c.panic))

\* Open of a File Package, c the result of NewFile.
OpenPck(c) ==
    /\ wems' = c.wems
    /\ pck' = c.pck
    /\ panicked' = FALSE
    /\ last' = (IF c.ok THEN NoCall ELSE NotOpened(FALSE))
    /\ UNCHANGED <<sections, dataLength, dataStart, hircLength, objects, loopOf>>

\* Open: NewFile over the bytes of the file.  An error or a panic leaves
\* the caller without a container.
OpenCall ==
    /\ last.op = "file"
    /\ IF kind = "bnk" THEN OpenBnk(NewFile(file)) ELSE OpenPck(PckNewFile(file))
    /\ UNCHANGED <<kind, file, out, written, nwrites, ncalls>>

\* The caller holds a container.
Opened == last.op \in {"load", "replace", "loop"}

\* The lengths a replacement wem may have.
NewLengths == {0} \cup ((MaxLen - 2)..MaxLen)

\* The request lists of one call: up to MaxReqs requests, each naming a wem
\* index (Len(ws) is out of range), a length and a source of its own.
ReqLists(ws, call) ==
    UNION {{[k \in 1..n |-> [src |-> SrcRep(16 * call + k), idx |-> is[k],
                             len |-> ls[k]]] :
              is \in [1..n -> 0..Len(ws)], ls \in [1..n -> NewLengths]} :
           n \in 1..MaxReqs}

LoopValues ==
    {LoopValue(FALSE, 0), LoopValue(TRUE, 2), LoopValue(TRUE, 23), LoopValue(TRUE, 0)}

\* File.ReplaceWems(rs...) of either container.
ReplaceWemsCall ==
    /\ Opened
    /\ ~panicked
    /\ ncalls < MaxCalls
    /\ \E rs \in ReqLists(wems, ncalls + 1) :
         /\ IF kind = "bnk"
            THEN \E r \in {BnkReplaceWems(wems, dataLength, rs)} :
                    /\ wems' = r.wems
                    /\ dataLength' = r.dataLength
                    /\ panicked' = r.panic
            ELSE \E r \in {PckReplaceWems(wems, rs)} :
                    /\ wems' = r.wems
                    /\ dataLength' = dataLength
                    /\ panicked' = r.panic
         /\ last' = Call("replace", rs, 0, LoopValue(FALSE, 0))
    /\ ncalls' = ncalls + 1
    /\ out' = <<>>
    /\ written' = 0
    /\ nwrites' = 0
    /\ UNCHANGED <<kind, file, sections, dataStart, hircLength, objects, loopOf, pck>>

\* bnk File.ReplaceLoopOf(i, loop).
ReplaceLoopOfCall ==
    /\ Opened
    /\ kind = "bnk"
    /\ ~panicked
    /\ ncalls < MaxCalls
    /\ \E i \in 0..Len(wems), loop \in LoopValues :
         \E r \in {ReplaceLoopOf(Bnk, i, loop)} :
            /\ objects' = r.objects
            /\ loopOf' = r.loopOf
            /\ hircLength' = r.hircLength
            /\ last' = Call("loop", <<>>, i, loop)
    /\ ncalls' = ncalls + 1
    /\ out' = <<>>
    /\ written' = 0
    /\ nwrites' = 0
    /\ UNCHANGED <<kind, file, sections, wems, dataLength, dataStart, pck, panicked>>

\* File.WriteTo(w) of either container, w an empty buffer.
WriteToCall ==
    /\ Opened
    /\ ~panicked
    /\ nwrites < MaxWrites
    /\ IF kind = "bnk"
       THEN \E r \in {WriteBnk(Bnk, file)} :
               /\ out' = r.bytes
               /\ written' = r.n
               /\ sections' = r.sections
               /\ wems' = r.wems
               /\ objects' = r.objects
       ELSE \E r \in {WritePck(pck, wems, file)} :
               /\ out' = r.bytes
               /\ written' = r.n
               /\ wems' = r.wems
               /\ UNCHANGED <<sections, objects>>
    /\ nwrites' = nwrites + 1
    /\ UNCHANGED <<kind, file, dataLength, dataStart, hircLength, loopOf, pck,
                   panicked, last, ncalls>>

(***************************************************************************)
(* Specifications.                                                         *)
(***************************************************************************)
LoopNone == LoopValue(FALSE, 0)

BnkCfg(lens, extra, tail, loops, pos, unk) ==
    [lens |-> lens, extra |-> extra, tail |-> tail, loops |-> loops,
     pos |-> pos, unk |-> unk]

\* Replacement sequences on three-wem SoundBanks, one of them keeping a
\* whole extra alignment unit of padding after its first wem.
ReplaceCorpus ==
    {MakeBnk(BnkCfg(<<15, 17, 16>>, <<0, 0, 0>>, 0, <<>>, "only", FALSE)),
     MakeBnk(BnkCfg(<<1, 16, 3>>, <<1, 0, 0>>, 13, <<>>, "only", FALSE))}

InitReplace == \E f \in ReplaceCorpus : Load("bnk", f)

NextReplace == ReplaceWemsCall

SpecReplace == InitReplace /\ [][NextReplace]_vars

\* Replacement, loop edits and serialization of small containers of both
\* kinds.
Corpus ==
    {[kind |-> "bnk",
      file |-> MakeBnk(BnkCfg(<<17, 15>>, <<0, 0>>, 1, <<LoopValue(TRUE, 2)>>,
                              "last", TRUE))],
     [kind |-> "pck", file |-> MakePck(<<16, 15>>)]}

Init == \E c \in Corpus : Load(c.kind, c.file)

Next == ReplaceWemsCall \/ ReplaceLoopOfCall \/ WriteToCall

Spec == Init /\ [][Next]_vars

\* The permutations of the sequence s.
RECURSIVE Orders(_)
Orders(s) ==
    IF Len(s) = 0 THEN {<<>>}
    ELSE UNION {{<<s[i]>> \o t : t \in Orders(RemoveAt(s, i))} :
                   i \in 1..Len(s)}

\* A bank of one wem with a sound object and unrecognised objects.
OneWemCfg == BnkCfg(<<15>>, <<0>>, 1, <<LoopValue(TRUE, 2)>>, "only", TRUE)

TwoWemCfg == BnkCfg(<<3, 16>>, <<0, 0>>, 0, <<>>, "only", TRUE)

\* The sections of a well-formed one-wem SoundBank in every order of its
\* four recognised sections, and with unrecognised sections first, between
\* and last.
OrderCorpus ==
    {MakeBnkOf(o \o <<"STID">>, <<WemIdOf(1)>>, OneWemCfg) :
        o \in Orders(<<"BKHD", "DIDX", "DATA", "HIRC">>)}
    \cup {MakeBnkOf(o, <<WemIdOf(1)>>, OneWemCfg) :
            o \in {<<"STID", "BKHD", "DIDX", "INIT", "DATA", "HIRC">>,
                   <<"INIT", "HIRC", "STID", "DIDX", "BKHD", "DATA", "INIT">>,
                   <<"DIDX", "DATA">>}}

\* Files Open has to refuse: no DATA section, a DATA section without wems
\* or without an index, repeated wem ids, a cut section header.
MalformedCorpus ==
    {<<>>,
     MakeBnkOf(<<"BKHD">>, <<>>, OneWemCfg),
     MakeBnkOf(<<"BKHD", "DIDX", "HIRC", "STID">>, <<WemIdOf(1)>>, OneWemCfg),
     MakeBnkOf(<<"BKHD", "DIDX", "DATA">>, <<>>,
               BnkCfg(<<>>, <<>>, 0, <<>>, "only", FALSE)),
     MakeBnkOf(<<"DIDX", "BKHD", "DATA", "HIRC">>, <<>>,
               BnkCfg(<<>>, <<>>, 0, <<>>, "only", FALSE)),
     MakeBnkOf(<<"BKHD", "DATA">>, <<>>, OneWemCfg),
     MakeBnkOf(<<"BKHD", "DIDX", "DATA">>, <<WemIdOf(1), WemIdOf(1)>>, TwoWemCfg),
     MakeBnkOf(<<"DIDX", "STID">>, <<WemIdOf(2), WemIdOf(2)>>, TwoWemCfg),
     MakeBnkOf(<<"BKHD", "DIDX", "DATA">>, <<WemIdOf(1)>>, OneWemCfg) \o <<1, 2, 3>>}

\* The first offset a File Package of n wems holds.
PckStart(n) == HEADER_BYTES + n * INDEX_ENTRY_BYTES + 4

\* File Packages whose index offsets are and are not the read cursor.
PckCorpus ==
    {MakePck(<<16, 15>>), MakePck(<<0, 3>>), MakePck(<<>>),
     MakePckAt(<<5>>, <<PckStart(1) + 1>>),
     MakePckAt(<<5>>, <<PckStart(1) - 4>>),
     MakePckAt(<<5>>, <<0>>),
     MakePckAt(<<3, 4>>, <<PckStart(2), PckStart(2) + 4>>),
     MakePckAt(<<3, 4>>, <<PckStart(2), PckStart(2) + 2>>),
     MakePckAt(<<3, 4>>, <<PckStart(2), PckStart(2)>>),
     MakePckAt(<<3, 4>>, <<PckStart(2) + 16, PckStart(2) + 19>>),
     SubSeq(MakePck(<<5>>), 1, HEADER_BYTES + INDEX_ENTRY_BYTES + 2)}

\* Open of well-formed, reordered and malformed files of both kinds, then
\* replacement, loop edits and serialization of the containers it returns.
ParseCorpus ==
    {[kind |-> "bnk", file |-> f] : f \in OrderCorpus \cup MalformedCorpus}
    \cup {[kind |-> "pck", file |-> f] : f \in PckCorpus}

InitParse == \E c \in ParseCorpus : Unopened(c.kind, c.file)

NextParse == OpenCall \/ ReplaceWemsCall \/ ReplaceLoopOfCall \/ WriteToCall

SpecParse == InitParse /\ [][NextParse]_vars

\* Loop edits and serialization over the loop variants of a SoundBank, and
\* serialization of unmodified containers of both kinds.
LoopCfgs ==
    {BnkCfg(lens, <<0, 0>>, 0, <<l, LoopNone>>, pos, unk) :
        lens \in {<<15, 16>>, <<17, 3>>},
        l \in LoopValues \ {LoopValue(TRUE, 23)},
        pos \in {"only", "first", "last"},
        unk \in BOOLEAN}

\* A SoundBank whose first sound object holds the loop parameter twice.
TwiceBnk ==
    MakeBnk(BnkCfg(<<15, 16>>, <<0, 0>>, 0, <<LoopValue(TRUE, 2), LoopNone>>,
                   "twice", FALSE))

LoopCorpus ==
    {[kind |-> "bnk", file |-> MakeBnk(c)] : c \in LoopCfgs}
    \cup {[kind |-> "bnk",
           file |-> MakeBnk(BnkCfg(<<5>>, <<0>>, 11, <<>>, "only", FALSE))],
          [kind |-> "bnk", file |-> TwiceBnk]}
    \cup {[kind |-> "pck", file |-> MakePck(lens)] :
            lens \in {<<17, 15>>, <<5>>, <<0, 3, 16>>}}

InitLoop == \E c \in LoopCorpus : Load(c.kind, c.file)

NextLoop == ReplaceLoopOfCall \/ WriteToCall

SpecLoop == InitLoop /\ [][NextLoop]_vars

(***************************************************************************)
(* Properties of replacement sequences (SpecReplace).                      *)
(***************************************************************************)
PaddingSize(w) == ReaderSize(w.padding)

\* A ReplaceWems call has just returned normally.
Replaced == last.op = "replace" /\ ~panicked

\* C1: in a SoundBank, after any sequence of ReplaceWems calls with in-range
\* indices, every wem ends, padding included, where the next wem starts:
\* offset + length + padding size of wem i is the offset of wem i+1.
C1_AdjacentAfterReplace ==
    (kind = "bnk" /\ ~panicked) =>
        \A i \in 1..(Len(wems) - 1) :
            wems[i].offset + wems[i].length + PaddingSize(wems[i])
                = wems[i + 1].offset

\* C2: in a SoundBank, after any sequence of ReplaceWems calls with in-range
\* indices, the DATA header length is the sum over the wems of descriptor
\* length plus padding size, whatever the sign of the net surplus.
C2_DataLengthIsSum ==
    (kind = "bnk" /\ ~panicked) =>
        dataLength = SumSeq([i \in 1..Len(wems) |->
                               wems[i].length + PaddingSize(wems[i])])

\* C3: in a SoundBank whose wem offsets are multiples of 16 at load, every wem
\* offset is a multiple of 16 after any sequence of ReplaceWems calls with
\* in-range indices.
C3_OffsetsAligned ==
    (kind = "bnk" /\ ~panicked
     /\ \A i \in 1..Len(NewFile(file).wems) :
           NewFile(file).wems[i].offset % WemAlign = 0) =>
        \A i \in 1..Len(wems) : wems[i].offset % WemAlign = 0

\* C3 witness: two calls have returned and the second wem has moved.
C3_Witness ==
    /\ kind = "bnk" /\ Replaced /\ ncalls = 2
    /\ wems[2].offset > NewFile(file).wems[2].offset
    /\ wems[3].offset > wems[2].offset + WemAlign

\* The 0-based indices the request list rs names.
Named(rs) == {rs[k].idx : k \in 1..Len(rs)}

Distinct(rs) == \A j, k \in 1..Len(rs) : j # k => rs[j].idx # rs[k].idx

\* The first n bytes of a replacement source.
SourceBytes(src, n) == [p \in 1..n |-> ByteAt(src, p - 1, <<>>)]

\* C8: a ReplaceWems call with in-range, pairwise distinct indices leaves each
\* named wem with the request's length and a reader that yields exactly that
\* many bytes of the request's source from position 0, and leaves every other
\* wem's length, wem id and reader as they were.
C8_ReplacedAsRequested ==
    [][(ncalls' = ncalls + 1 /\ last'.op = "replace" /\ ~panicked'
        /\ Distinct(last'.reqs)) =>
          \A i \in 1..Len(wems) :
             IF i - 1 \in Named(last'.reqs)
             THEN \A k \in 1..Len(last'.reqs) :
                    last'.reqs[k].idx = i - 1 =>
                      /\ wems'[i].length = last'.reqs[k].len
                      /\ wems'[i].id = wems[i].id
                      /\ IoCopy(wems'[i].reader, file).bytes
                           = SourceBytes(last'.reqs[k].src, last'.reqs[k].len)
             ELSE /\ wems'[i].length = wems[i].length
                  /\ wems'[i].id = wems[i].id
                  /\ wems'[i].reader = wems[i].reader]_vars

\* C8 witness: a call with two requests for distinct wems has returned, one
\* growing and one emptying its wem, and the third wem was not named.
C8_Witness ==
    /\ Replaced /\ Len(last.reqs) = 2 /\ Distinct(last.reqs)
    /\ Len(wems) = 3 /\ Named(last.reqs) = {0, 2}
    /\ wems[1].length = MaxLen /\ wems[3].length = 0
    /\ wems[2].reader.src = SrcFile

\* C9: a ReplaceWems call with an out-of-range index changes nothing: every
\* wem's descriptor, reader, padding and offset and the DATA header length
\* are what they were before the call, even when the call also holds valid
\* requests with smaller indices.
C9_OutOfRangeChangesNothing ==
    [][(ncalls' = ncalls + 1 /\ last'.op = "replace"
        /\ \E k \in 1..Len(last'.reqs) :
              last'.reqs[k].idx < 0 \/ last'.reqs[k].idx >= Len(wems)) =>
          (wems' = wems /\ dataLength' = dataLength)]_vars

AtStart(r) == r.pos = 0

\* Every reader of the container is at the start of its window.
ReadersAtStart ==
    /\ \A i \in 1..Len(wems) : AtStart(wems[i].reader) /\ AtStart(wems[i].padding)
    /\ \A i \in 1..Len(sections) : AtStart(sections[i].reader)
    /\ \A i \in 1..Len(objects) :
          AtStart(objects[i].reader) /\ AtStart(objects[i].ss.rem)

ExpectedOffset(start, ws, i) ==
    start + ws[1].offset
    + SumSeq([j \in 1..(i - 1) |-> ws[j].length + PaddingSize(ws[j])])

\* C6: after ReplaceWems on a SoundBank with in-range requests, the bytes
\* WriteTo writes parse again, into as many wems, each with the wem id,
\* offset and length of the container's descriptor and at the running sum of
\* length plus padding of the container's wems.
C6_ReparseMatches ==
    (kind = "bnk" /\ Replaced /\ nwrites >= 1) =>
        LET re == NewFile(out)
        IN /\ re.ok
           /\ Len(re.wems) = Len(wems)
           /\ \A i \in 1..Len(wems) :
                 /\ re.wems[i].id = wems[i].id
                 /\ re.wems[i].offset = wems[i].offset
                 /\ re.wems[i].length = wems[i].length
                 /\ re.dataStart + re.wems[i].offset
                       = ExpectedOffset(dataStart, wems, i)

\* C7: after one ReplaceWems call on a File Package with one request, for the
\* first or the last wem and with a length other than the wem's, the bytes
\* WriteTo writes parse again, every wem with the expected length and at the
\* running sum of length plus padding of the container's wems.
C7_PckReparse ==
    (/\ kind = "pck" /\ Replaced /\ ncalls = 1 /\ nwrites >= 1
     /\ Len(last.reqs) = 1
     /\ last.reqs[1].idx \in {0, Len(wems) - 1}
     /\ last.reqs[1].len
           # PckNewFile(file).wems[last.reqs[1].idx + 1].length) =>
        LET re == PckNewFile(out)
            org == PckNewFile(file).wems
        IN /\ re.ok
           /\ Len(re.wems) = Len(wems)
           /\ \A i \in 1..Len(wems) :
                 /\ re.wems[i].length
                       = IF i - 1 = last.reqs[1].idx THEN last.reqs[1].len
                         ELSE org[i].length
                 /\ re.wems[i].offset = ExpectedOffset(0, wems, i)

(***************************************************************************)
(* Properties of the loop editor (SpecLoop).                               *)
(***************************************************************************)
\* The bytes WriteTo writes for the SoundBank loaded from f after
\* ReplaceLoopOf(i, loop).
SetLoopBytes(f, i, loop) ==
    LET c == NewFile(f)
        r == ReplaceLoopOf(c, i, loop)
    IN WriteBnk([c EXCEPT !.objects = r.objects, !.loopOf = r.loopOf,
                          !.hircLength = r.hircLength], f).bytes

\* The loop variants of the bank f of the corpus: the banks that differ from
\* it in the loop of the first wem's sound object only.
Variants(f) ==
    LET cfg == CHOOSE c \in LoopCfgs : MakeBnk(c) = f
    IN {MakeBnk([cfg EXCEPT !.loops[1] = l]) : l \in LoopValues}

InLoopCfgs(f) == \E c \in LoopCfgs : MakeBnk(c) = f

\* The loop parameter of the sound object of the wem at index i of the
\* SoundBank loaded from f, if it has one, is the last of its parameters.
LoopParamLast(f, i) ==
    LET c == NewFile(f)
        o == IF i < 0 \/ i >= Len(c.wems) THEN 0
             ELSE WemToObject(c.objects, c.wems[i + 1].id)
    IN o = 0 \/ LoopSlot(c.objects[o].ss) \in {0, Len(c.objects[o].ss.types)}

StoredLoop(objs, id) ==
    LET o == WemToObject(objs, id)
    IN IF o = 0 THEN LoopNone
       ELSE IF LoopSlot(objs[o].ss) = 0 THEN LoopNone
       ELSE LoopValue(TRUE, LoopValueOf(objs[o].ss))

\* C11: ReplaceLoopOf is idempotent: in any state reached by ReplaceLoopOf
\* calls, the call just made, made again, changes neither the objects nor the
\* HIRC length nor loopOf; and a call with the loop value the sound object of
\* the wem holds changes nothing.
C11_SetLoopIdempotent ==
    kind = "bnk" =>
        /\ last.op = "loop" =>
              ReplaceLoopOf(Bnk, last.idx, last.loop) = LoopUnchanged(Bnk)
        /\ \A i \in 0..(Len(wems) - 1) :
              ReplaceLoopOf(Bnk, i, StoredLoop(objects, wems[i + 1].id))
                 = LoopUnchanged(Bnk)

\* C12: after any sequence of ReplaceLoopOf calls, LoopOf of every wem is the
\* loop value the parameter list of its sound object holds: no loop exactly
\* when the list has no loop parameter, and otherwise the value in its slot.
C12_LoopOfAgrees ==
    kind = "bnk" =>
        \A i \in 0..(Len(wems) - 1) :
            LoopOf(wems, HasObjects(sections), loopOf, i)
               = StoredLoop(objects, wems[i + 1].id)

(***************************************************************************)
(* Properties of the declared lengths of a SoundBank (Spec, SpecLoop).     *)
(***************************************************************************)
\* The length the header of a section of the SoundBank declares.
DeclaredLength(sec) ==
    CASE sec.kind = "DATA" -> dataLength
      [] sec.kind = "HIRC" -> hircLength
      [] OTHER -> sec.length

\* C13: in any state a SoundBank reaches by load and ReplaceWems and
\* ReplaceLoopOf calls, the byte count WriteTo returns is the sum of the
\* lengths the section headers declare plus SECTION_HEADER_BYTES for each
\* section.
C13_WrittenIsDeclared ==
    (kind = "bnk" /\ nwrites > 0) =>
        written = SumSeq([i \in 1..Len(sections) |-> DeclaredLength(sections[i])])
                  + SECTION_HEADER_BYTES * Len(sections)

\* The sum of the sizes the descriptors of the objects objs declare, each
\* with the type and length fields before it.
ObjectsLength(objs) ==
    SumSeq([i \in 1..Len(objs) |-> (OBJECT_DESCRIPTOR_BYTES - OBJECT_DESCRIPTOR_ID_BYTES) + objs[i].length])

C15_LengthsAreRequested ==
    (kind = "bnk" /\ Replaced /\ Distinct(last.reqs)) =>
        \A k \in 1..Len(last.reqs) :
            LET id == wems[last.reqs[k].idx + 1].id
            IN /\ DescriptorOf(wems, id).length = last.reqs[k].len
               /\ \A i \in 1..Len(objects) :
                     (IsSound(objects[i]) /\ objects[i].wemId = id) =>
                         objects[i].wemLength = last.reqs[k].len

(***************************************************************************)
(* Properties of Open (SpecParse).                                         *)
(***************************************************************************)
\* The section headers a file holds, read one after the other from byte c:
\* identifier, declared length and position of each.
RECURSIVE InputSections(_, _)
InputSections(b, c) ==
    IF c + SECTION_HEADER_BYTES > Len(b) THEN <<>>
    ELSE <<[id |-> Slice(b, c, 4), length |-> U32At(b, c + 4), at |-> c]>>
         \o InputSections(b, c + SECTION_HEADER_BYTES + U32At(b, c + 4))

\* The number of index entries a DATA section at position i of the headers
\* hs has to go by: those of the last DIDX section before it, none if there
\* is no such section.
IndexedWems(hs, i) ==
    LET js == {j \in 1..(i - 1) : hs[j].id = didxHeaderId}
    IN IF js = {} THEN 0
       ELSE hs[CHOOSE j \in js : \A k \in js : k <= j].length \div DIDX_ENTRY_BYTES

\* Open returned an error and no container.
OpenFailed ==
    /\ last.op = "error" /\ ~panicked
    /\ sections = <<>> /\ wems = <<>> /\ objects = <<>> /\ pck = NoPck

\* C16: Open of a SoundBank returns an error and no container whenever the
\* file has no DATA section or its DATA section yields no wem, and every
\* SoundBank Open returns has at least one wem.
C16_NoWemsIsAnError ==
    (kind = "bnk" /\ last.op # "file") =>
        LET hs == InputSections(file, 0)
        IN /\ ((\A i \in 1..Len(hs) : hs[i].id # dataHeaderId)
               \/ (\E i \in 1..Len(hs) :
                      hs[i].id = dataHeaderId /\ IndexedWems(hs, i) = 0))
                 => OpenFailed
           /\ last.op = "load" => Len(wems) >= 1

\* The wem ids of the entries of the DIDX section of header h of the file b.
InputWemIds(b, h) ==
    [k \in 1..(h.length \div DIDX_ENTRY_BYTES) |->
        U32At(b, h.at + SECTION_HEADER_BYTES + (k - 1) * DIDX_ENTRY_BYTES)]

\* C17: Open of a SoundBank whose DIDX section holds two entries with the
\* same wem id returns an error and no container, and the wem ids of every
\* SoundBank Open returns are pairwise distinct.
C17_RepeatedWemIdIsAnError ==
    (kind = "bnk" /\ last.op # "file") =>
        LET hs == InputSections(file, 0)
        IN /\ (\E i \in 1..Len(hs) :
                  /\ hs[i].id = didxHeaderId
                  /\ \E j, k \in 1..Len(InputWemIds(file, hs[i])) :
                        j # k /\ InputWemIds(file, hs[i])[j]
                                   = InputWemIds(file, hs[i])[k])
                 => OpenFailed
           /\ last.op = "load" =>
                 \A j, k \in 1..Len(wems) : j # k => wems[j].id # wems[k].id

\* The descriptor of the i-th index entry of the File Package file b.
InputIndex(b, i) == NewDataIndex(b, HEADER_BYTES + (i - 1) * INDEX_ENTRY_BYTES).desc

\* The read cursor when newWem is called for the i-th of the n index entries
\* of the file b: after the word that follows the index, and after the
\* wems before it.
InputCursor(b, n, i) ==
    PckStart(n) + SumSeq([j \in 1..(i - 1) |-> InputIndex(b, j).length])

\* C18: Open of a File Package returns an error and no container if the
\* read cursor at some index entry, taken in index order, is not the offset
\* of the entry; every File Package Open returns has contiguous wems, each
\* starting where the one before ends, with padding of size 0.
C18_OffsetIsCursor ==
    (kind = "pck" /\ last.op # "file") =>
        /\ (/\ Len(file) >= HEADER_BYTES
            /\ Len(file) >= PckStart(NewHeader(file).hdr.wemCount)
            /\ \E i \in 1..NewHeader(file).hdr.wemCount :
                  InputCursor(file, NewHeader(file).hdr.wemCount, i)
                     # InputIndex(file, i).offset)
              => OpenFailed
        /\ last.op = "load" =>
              /\ \A i \in 1..(Len(wems) - 1) :
                    wems[i + 1].offset = wems[i].offset + wems[i].length
              /\ \A i \in 1..Len(wems) : PaddingSize(wems[i]) = 0

C18_Witness ==
    /\ kind = "pck" /\ OpenFailed
    /\ Len(file) >= PckStart(2) /\ NewHeader(file).hdr.wemCount = 2
    /\ InputIndex(file, 1).offset = InputCursor(file, 2, 1)
    /\ InputIndex(file, 2).offset = InputCursor(file, 2, 2) + 1

\* The bytes WriteTo of each section of the SoundBank emits.
SectionsBytes ==
    [i \in 1..Len(sections) |-> WriteSection(Bnk, sections[i], file).bytes]

\* The sections of the SoundBank are those of the file, in the order of the
\* file.
SectionsAsRead(hs) ==
    /\ Len(sections) = Len(hs)
    /\ \A i \in 1..Len(hs) : sections[i].id = hs[i].id

\* The bytes bs of the sections make up out, one section after the other,
\* each starting with the identifier of its header in the file, and each
\* unrecognised section is the identifier, length and bytes it has in the
\* file.
WrittenAsRead(hs, bs) ==
    /\ out = Flatten(bs)
    /\ \A i \in 1..Len(hs) :
         LET start == SumSeq([j \in 1..(i - 1) |-> Len(bs[j])])
         IN /\ Slice(out, start, 4) = hs[i].id
            /\ hs[i].id \notin {bkhdHeaderId, didxHeaderId, dataHeaderId, hircHeaderId}
                 => Slice(out, start, Len(bs[i]))
                      = Slice(file, hs[i].at, SECTION_HEADER_BYTES + hs[i].length)

\* C19: Open reads the sections of a SoundBank in any order of BKHD, DIDX,
\* DATA, HIRC and unrecognised sections; the SoundBank keeps them in the
\* order read through ReplaceWems and ReplaceLoopOf calls, and WriteTo writes
\* them in that order, an unrecognised section with the identifier, length
\* and bytes it was read with.
C19_SectionsInOrderRead ==
    (kind = "bnk" /\ last.op # "file") =>
        /\ file \in OrderCorpus => last.op \notin {"error", "panic"}
        /\ Opened => SectionsAsRead(InputSections(file, 0))
        /\ (Opened /\ ~panicked /\ nwrites > 0) =>
              WrittenAsRead(InputSections(file, 0), SectionsBytes)

(***************************************************************************)
(* Properties of the padding of a grown wem (SpecReplace).                 *)
(***************************************************************************)
\* C20: when a request of a ReplaceWems call on a SoundBank grows a wem, the
\* new padding of the wem is
\* (WemAlign - ((offset + new length) % WemAlign)) % WemAlign: 0 when the wem
\* ends on a multiple of WemAlign, and always in 0..WemAlign - 1.
C20_GrowPaddingIsModular ==
    [][(kind = "bnk" /\ ncalls' = ncalls + 1 /\ last'.op = "replace" /\ ~panicked'
        /\ Distinct(last'.reqs)) =>
          \A i \in 1..Len(wems) :
             (i - 1 \in Named(last'.reqs) /\ wems'[i].length > wems[i].length) =>
                 /\ PaddingSize(wems'[i])
                      = (WemAlign - ((wems'[i].offset + wems'[i].length) % WemAlign))
                        % WemAlign
                 /\ PaddingSize(wems'[i]) \in 0..(WemAlign - 1)]_vars

(***************************************************************************)
(* Properties of single calls of the replacement engine (SpecReplace).     *)
(***************************************************************************)
\* C21: a ReplaceWems call on a SoundBank with one request whose length is at
\* most the length of the wem (0 included) gives the wem the padding it had
\* plus the bytes it lost, and leaves its offset, the offset of every other
\* wem and the DATA header length as they were; with length 0 the wem is
\* empty and its padding is its old length plus its old padding.
C21_ShrinkKeepsOffsets ==
    [][(kind = "bnk" /\ ncalls' = ncalls + 1 /\ last'.op = "replace" /\ ~panicked'
        /\ Len(last'.reqs) = 1
        /\ last'.reqs[1].len <= wems[last'.reqs[1].idx + 1].length) =>
          /\ wems'[last'.reqs[1].idx + 1].length = last'.reqs[1].len
          /\ PaddingSize(wems'[last'.reqs[1].idx + 1])
               = PaddingSize(wems[last'.reqs[1].idx + 1])
                 + (wems[last'.reqs[1].idx + 1].length - last'.reqs[1].len)
          /\ \A i \in 1..Len(wems) : wems'[i].offset = wems[i].offset
          /\ \A i \in 1..Len(wems) :
                i # last'.reqs[1].idx + 1 =>
                    PaddingSize(wems'[i]) = PaddingSize(wems[i])
          /\ dataLength' = dataLength]_vars

C21_Witness ==
    /\ kind = "bnk" /\ Replaced /\ ncalls = 2 /\ last.prev.op = "replace"
    /\ Len(last.reqs) = 1 /\ last.reqs[1].idx = 1 /\ last.reqs[1].len = 0
    /\ wems[2].length = 0 /\ PaddingSize(wems[2]) = MaxLen + WemAlign - 1
    /\ wems[1].length = MaxLen
    /\ dataLength > NewFile(file).dataLength

\* The bytes the wems ws take in the data region, padding included.
DataBytes(ws) == SumSeq([i \in 1..Len(ws) |-> ws[i].length + PaddingSize(ws[i])])

\* The largest 0-based index the request list rs names.
LastNamed(rs) == CHOOSE i \in Named(rs) : \A j \in Named(rs) : j <= i

\* C22: for every request list with in-range, pairwise distinct indices the
\* value wwise.ReplaceWems returns is the number of bytes the call adds to the
\* data region, the sum of length and padding over the wems after the call
\* minus that sum before it, and the offset of every wem after the last
\* replaced one grows by exactly that value.
C22_SurplusIsNetGrowth ==
    [][(ncalls' = ncalls + 1 /\ last'.op = "replace" /\ ~panicked'
        /\ Distinct(last'.reqs)) =>
          /\ ReplaceWems(wems, last'.reqs).surplus = DataBytes(wems') - DataBytes(wems)
          /\ \A i \in 1..Len(wems) :
                i - 1 > LastNamed(last'.reqs) =>
                    wems'[i].offset
                       = wems[i].offset + (DataBytes(wems') - DataBytes(wems))]_vars

(***************************************************************************)
(* Properties of replacement in a File Package (Spec).                     *)
(***************************************************************************)
\* C23: in a File Package the wems are aligned to 1 byte: a ReplaceWems call
\* that only grows wems gives every grown wem padding 0 and moves every later
\* wem by the bytes gained before it, so that each wem still starts where
\* the one before it ends.
C23_PckGrowsWithoutPadding ==
    [][(kind = "pck" /\ ncalls' = ncalls + 1 /\ last'.op = "replace" /\ ~panicked'
        /\ Distinct(last'.reqs)
        /\ \A k \in 1..Len(last'.reqs) :
              last'.reqs[k].len > wems[last'.reqs[k].idx + 1].length) =>
          /\ \A i \in 1..Len(wems) :
                i - 1 \in Named(last'.reqs) => PaddingSize(wems'[i]) = 0
          /\ (\A i \in 1..Len(wems) : PaddingSize(wems[i]) = 0) =>
                \A i \in 1..Len(wems) :
                   /\ wems'[i].offset
                        = wems[i].offset
                          + SumSeq([j \in 1..(i - 1) |->
                                      wems'[j].length - wems[j].length])
                   /\ i < Len(wems) =>
                        wems'[i + 1].offset = wems'[i].offset + wems'[i].length]_vars

(***************************************************************************)
(* Properties of single ReplaceLoopOf calls (SpecLoop).                    *)
(***************************************************************************)
\* The step is a ReplaceLoopOf call for a wem of the SoundBank whose sound
\* object is objects[o].
LoopCallOn(o) ==
    /\ kind = "bnk" /\ HasObjects(sections)
    /\ ncalls' = ncalls + 1 /\ last'.op = "loop"
    /\ last'.idx < Len(wems)
    /\ o = WemToObject(objects, wems[last'.idx + 1].id)

\* C24: ReplaceLoopOf with a looping value, infinite or finite, for a wem
\* whose sound object has no parameter of type 0x3A appends the type 0x3A to
\* the parameter types and the little-endian value to the parameter values,
\* adds 1 to the parameter count and 5 to the descriptor length of the
\* object and to the HIRC header length, and leaves the parameters the
\* object had, its trailing bytes and everything else as they were.
C24_AppendsLoopParameter ==
    [][\A o \in 1..Len(objects) :
         (LoopCallOn(o) /\ last'.loop.loops /\ LoopSlot(objects[o].ss) = 0) =>
            /\ objects' = [objects EXCEPT
                              ![o].ss.types = Append(@, parameterLoopType),
                              ![o].ss.values = Append(@, LE32(last'.loop.value)),
                              ![o].ss.count = @ + 1,
                              ![o].length = @ + 5]
            /\ hircLength' = hircLength + 5]_vars

C24_Witness ==
    /\ kind = "bnk" /\ ncalls = 1 /\ last.op = "loop" /\ last.idx = 0
    /\ last.loop = LoopValue(TRUE, 0)
    /\ LET o == WemToObject(objects, wems[1].id)
       IN /\ o # 0
          /\ objects[o].ss.types = <<0, parameterLoopType>>
          /\ objects[o].ss.values = <<<<7, 0, 0, 0>>, <<0, 0, 0, 0>>>>
          /\ objects[o].ss.count = 2
          /\ objects[o].length = NewFile(file).objects[o].length + 5
    /\ hircLength = NewFile(file).hircLength + 5

\* C25: ReplaceLoopOf with the value "no loop" for a wem whose sound object
\* has a parameter of type 0x3A removes the type and the value of that
\* parameter from the same position of the two lists, subtracts 1 from the
\* parameter count and 5 from the descriptor length of the object and from
\* the HIRC header length, keeps the other parameters in their order, and
\* LoopOf of the wem then reports no loop.
C25_RemovesLoopParameter ==
    [][\A o \in 1..Len(objects) :
         (LoopCallOn(o) /\ ~last'.loop.loops /\ LoopSlot(objects[o].ss) # 0) =>
            /\ objects' = [objects EXCEPT
                              ![o].ss.types = RemoveAt(@, LoopSlot(objects[o].ss)),
                              ![o].ss.values = RemoveAt(@, LoopSlot(objects[o].ss)),
                              ![o].ss.count = @ - 1,
                              ![o].length = @ - 5]
            /\ hircLength' = hircLength - 5
            /\ LoopOf(wems', HasObjects(sections'), loopOf', last'.idx) = LoopNone]_vars

\* C26: ReplaceLoopOf with a looping value for a wem whose sound object has
\* a parameter of type 0x3A with another value overwrites the 4 bytes of
\* that value with the little-endian new value and nothing else: the
\* parameter count, the types, the other values, the descriptor length of
\* the object and the HIRC header length stay as they were.
C26_OverwritesLoopValue ==
    [][\A o \in 1..Len(objects) :
         (/\ LoopCallOn(o) /\ last'.loop.loops
          /\ LoopSlot(objects[o].ss) # 0
          /\ LoopValueOf(objects[o].ss) # last'.loop.value) =>
            /\ objects' = [objects EXCEPT
                              ![o].ss.values[LoopSlot(objects[o].ss)]
                                  = LE32(last'.loop.value)]
            /\ hircLength' = hircLength]_vars

(***************************************************************************)
(* Batches of requests against single requests (SpecReplace, Spec).        *)
(***************************************************************************)
\* The descriptors and padding sizes of the wems ws and the DATA header
\* length.
Layout(ws, length) ==
    [wems |-> [i \in 1..Len(ws) |->
                 [id |-> ws[i].id, offset |-> ws[i].offset,
                  length |-> ws[i].length, padding |-> PaddingSize(ws[i])]],
     dataLength |-> length]

\* The SoundBank after one File.ReplaceWems call for each of the requests
\* rs, from the i-th on, in the order of rs.
RECURSIVE OneByOne(_, _, _)
OneByOne(c, rs, i) ==
    IF i > Len(rs) THEN c
    ELSE OneByOne(BnkReplaceWems(c.wems, c.dataLength, <<rs[i]>>), rs, i + 1)

\* The SoundBank was loaded with no more padding after a wem than its
\* alignment asks for.
MinimalPadding(ws) ==
    \A i \in 1..Len(ws) :
        /\ ws[i].offset % WemAlign = 0
        /\ PaddingSize(ws[i]) = (WemAlign - (ws[i].length % WemAlign)) % WemAlign

\* C27: on a SoundBank loaded with minimal alignment padding, one
\* ReplaceWems call with in-range, pairwise distinct indices leaves the
\* descriptors, the paddings and the DATA header length as one call per
\* request, in ascending order of the indices, does.
C27_BatchIsOneByOne ==
    (kind = "bnk" /\ Replaced /\ ncalls = 1 /\ Distinct(last.reqs)
     /\ MinimalPadding(NewFile(file).wems)) =>
        Layout(wems, dataLength)
           = LET c == OneByOne(NewFile(file), SortByWemIndex(last.reqs), 1)
             IN Layout(c.wems, c.dataLength)

C27_Witness ==
    /\ kind = "bnk" /\ Replaced /\ ncalls = 1 /\ Distinct(last.reqs)
    /\ MinimalPadding(NewFile(file).wems)
    /\ Len(last.reqs) = 2 /\ last.reqs[1].idx = 1 /\ last.reqs[2].idx = 0
    /\ wems[1].length = MaxLen /\ wems[2].length = MaxLen - 1
    /\ wems[3].offset > NewFile(file).wems[3].offset

(***************************************************************************)
(* C28: the container reached by ReplaceWems does not depend on the order  *)
(* in which the requests are listed.                                       *)
(***************************************************************************)

\* The wems and the DATA header length a call on the container leaves.
Outcome(k, ws, length, rs) ==
    IF k = "bnk"
    THEN LET r == BnkReplaceWems(ws, length, rs)
         IN [wems |-> r.wems, dataLength |-> r.dataLength, panic |-> r.panic]
    ELSE LET r == PckReplaceWems(ws, rs)
         IN [wems |-> r.wems, dataLength |-> length, panic |-> r.panic]

\* C28: a call whose requests name in-range, pairwise distinct wems leaves
\* the wems (descriptors, byte sources, paddings) and the DATA length that
\* the same call leaves with its requests listed in any other order.
C28_OrderOfRequestsIrrelevant ==
    [][(last'.op = "replace" /\ ~panicked' /\ Distinct(last'.reqs)) =>
          \A rs \in Orders(last'.reqs) :
              \E r \in {Outcome(kind, wems, dataLength, rs)} :
                  /\ ~r.panic
                  /\ wems' = r.wems
                  /\ dataLength' = r.dataLength]_vars

\* Two requests listed in descending index order, both growing their wem.
C28_Witness ==
    /\ Replaced /\ Distinct(last.reqs) /\ Len(last.reqs) = 2
    /\ last.reqs[1].idx > last.reqs[2].idx
    /\ last.reqs[1].len = MaxLen /\ last.reqs[2].len = MaxLen - 1
    /\ wems[last.reqs[1].idx + 1].length = MaxLen
    /\ wems[last.reqs[2].idx + 1].length = MaxLen - 1
    /\ wems[last.reqs[1].idx + 1].offset > wems[last.reqs[2].idx + 1].offset

(***************************************************************************)
(* C29: ReplaceLoopOf and ReplaceWems act on disjoint parts of a SoundBank.*)
(***************************************************************************)

\* The SoundBank with the wems and the DATA length a ReplaceWems call left.
BnkWith(ws, length) == [Bnk EXCEPT !.wems = ws, !.dataLength = length]

\* C29: a ReplaceLoopOf call changes no wem (descriptor, padding, byte
\* source), no section as indexed by DIDX and not the DATA header length; a
\* ReplaceWems call changes neither the HIRC header length nor an object, its
\* parameters or the loopOf entries; and every ReplaceLoopOf call has the
\* same effect after a ReplaceWems call as before it, so the two calls give
\* the same SoundBank in either order.
C29_LoopAndWemsDisjoint ==
    [][/\ (last'.op = "loop") =>
             /\ wems' = wems
             /\ dataLength' = dataLength
             /\ sections' = sections
             /\ dataStart' = dataStart
       /\ (kind = "bnk" /\ last'.op = "replace" /\ ~panicked') =>
             /\ hircLength' = hircLength
             /\ objects' = objects
             /\ loopOf' = loopOf
             /\ \A i \in 0..Len(wems), loop \in LoopValues :
                    ReplaceLoopOf(BnkWith(wems', dataLength'), i, loop)
                       = ReplaceLoopOf(Bnk, i, loop)]_vars

\* A loop edit that changed the HIRC section, made after a replacement that
\* grew the DATA section.
C29_Witness ==
    /\ kind = "bnk" /\ ~panicked /\ ncalls = 2
    /\ last.op = "loop" /\ last.prev.op = "replace"
    /\ hircLength # NewFile(file).hircLength
    /\ dataLength > NewFile(file).dataLength
    /\ wems # NewFile(file).wems

(***************************************************************************)
(* C30: the parameter lists of the sound structures under loop edits.      *)
(***************************************************************************)

\* A SoundBank of two sound objects whose parameter lists are as long as the
\* ParameterCount byte allows: the first has no loop parameter, the second
\* has it last.
FullBnk ==
    MakeBnk(BnkCfg(<<5, 3>>, <<0, 0>>, 0, <<LoopNone, LoopValue(TRUE, 2)>>,
                   "full", FALSE))

ParamsCorpus ==
    {[kind |-> "bnk", file |-> FullBnk],
     [kind |-> "bnk",
      file |-> MakeBnk(BnkCfg(<<15, 16>>, <<0, 0>>, 0,
                              <<LoopValue(TRUE, 2), LoopNone>>, "last", TRUE))]}

InitParams == \E c \in ParamsCorpus : Load(c.kind, c.file)

NextParams == ReplaceLoopOfCall \/ WriteToCall

SpecParams == InitParams /\ [][NextParams]_vars

\* The number of loop parameters of a sound structure.
LoopParams(ss) ==
    Cardinality({k \in 1..Len(ss.types) : ss.types[k] = parameterLoopType})

\* No sound structure of the loaded objects holds the loop parameter twice.
OneLoopAtMost(objs) ==
    \A o \in 1..Len(objs) : IsSound(objs[o]) => LoopParams(objs[o].ss) <= 1

\* C30: in a SoundBank loaded with at most one loop parameter per sound
\* structure, after any sequence of ReplaceLoopOf calls every sound
\* structure has ParameterCount = the number of its parameter types = the
\* number of its parameter values, and at most one loop parameter.
C30_ParameterListsAgree ==
    (kind = "bnk" /\ OneLoopAtMost(NewFile(file).objects)) =>
        \A o \in 1..Len(objects) :
            IsSound(objects[o]) =>
                /\ objects[o].ss.count = Len(objects[o].ss.types)
                /\ Len(objects[o].ss.types) = Len(objects[o].ss.values)
                /\ LoopParams(objects[o].ss) <= 1
====
